---- MODULE Spec2Model ----
(***************************************************************************)
(* The file-backed service registry of contrib/registry/local: New,        *)
(* Register, Deregister and GetService of registry.go, with the whole-file *)
(* JSON snapshot they read and rewrite (readRegistryFile and               *)
(* writeRegistryFile).  Callers are goroutines that share one *Registry;   *)
(* every statement between two shared accesses (the RWMutex, the file at   *)
(* filePath, the file at filePath + ".tmp", the clock) is one step.        *)
(*                                                                         *)
(* Strings (names, ids, versions, endpoints) range over valid UTF-8 text,  *)
(* for which encoding/json is lossless.                                    *)
(***************************************************************************)
EXTENDS Integers, Sequences, FiniteSets, TLC

(* ------------------------------ bounds --------------------------------- *)

\* events of a run: calls invoked, I/O operations the environment makes fail,
\* and deaths of the process followed by a new New(path)
MaxEvents == 3
\* write(2) calls it takes os.WriteFile to put the whole document in the file
Chunks == 2

\* the caller goroutines that share the Registry
Procs == {1, 2}
\* the values of the Unix clock
Times == {1, 2}
\* the goroutine that runs New
Main == 0
Threads == Procs \cup {Main}

Names == {"svc", "none"}
Ids == {"1", "2"}

(* ----------------------- values of the data model ---------------------- *)

\* kratos registry.ServiceInstance values the callers pass in
KratosInstances ==
  { [ID |-> i, Name |-> "svc", Version |-> pr[1], Metadata |-> pr[2], Endpoints |-> pr[3]] :
      i \in Ids,
      pr \in { <<"v1", "nil", <<"http://a">> >>,
               <<"v2", "env=test", <<"http://b", "grpc://b">> >> } }
  \cup { [ID |-> "1", Name |-> "none", Version |-> "v1", Metadata |-> "nil",
          Endpoints |-> <<"http://a">>] }

\* the argument of Deregister: only Name and ID are read
DeregisterArgs ==
  { [ID |-> i, Name |-> n, Version |-> "v1", Metadata |-> "nil", Endpoints |-> <<"http://a">>] :
      i \in Ids, n \in Names }

NoService == [ID |-> "", Name |-> "", Version |-> "", Metadata |-> "nil", Endpoints |-> << >>]

\* ServiceInstance{} as stored in RegistryData
NoInstance ==
  [ID |-> "", Name |-> "", Version |-> "", Metadata |-> "nil", Endpoints |-> << >>, Timestamp |-> 0]

\* map[string][]*ServiceInstance: a function whose domain is the set of keys
EmptyMap == [n \in {} |-> << >>]

\* RegistryData{}
NoData == [Services |-> EmptyMap, Version |-> "", Updated |-> 0]

\* m[k] of a Go map: the zero value (a nil slice) for a missing key
MapGet(m, k) == IF k \in DOMAIN m THEN m[k] ELSE << >>

\* m[k] = v
MapSet(m, k, v) == [x \in (DOMAIN m) \cup {k} |-> IF x = k THEN v ELSE m[x]]

\* delete(m, k)
MapDelete(m, k) == [x \in (DOMAIN m) \ {k} |-> m[x]]

(* --------------------------- the JSON document ------------------------- *)

\* json.MarshalIndent of one *ServiceInstance: the fields under their json tags
MarshalInstance(inst) ==
  [id |-> inst.ID, name |-> inst.Name, version |-> inst.Version,
   metadata |-> IF inst.Metadata = "nil" THEN "null" ELSE inst.Metadata,
   endpoints |-> inst.Endpoints, timestamp |-> inst.Timestamp]

\* json.MarshalIndent(data, "", "  ")
MarshalIndent(data) ==
  [services |-> [n \in DOMAIN data.Services |->
                   [i \in 1..Len(data.Services[n]) |-> MarshalInstance(data.Services[n][i])]],
   version |-> data.Version,
   updated |-> data.Updated]

UnmarshalInstance(o) ==
  [ID |-> o.id, Name |-> o.name, Version |-> o.version,
   Metadata |-> IF o.metadata = "null" THEN "nil" ELSE o.metadata,
   Endpoints |-> o.endpoints, Timestamp |-> o.timestamp]

\* json.Unmarshal(data, &registryData)
Unmarshal(doc) ==
  [Services |-> [n \in DOMAIN doc.services |->
                   [i \in 1..Len(doc.services[n]) |-> UnmarshalInstance(doc.services[n][i])]],
   Version |-> doc.version,
   Updated |-> doc.updated]

NoDoc == MarshalIndent(NoData)

(* ------------------------------ the files ------------------------------ *)

\* a path of the file system: absent, or a file holding the first `written`
\* of the Chunks pieces of the document `doc`
NoFile == [exists |-> FALSE, doc |-> NoDoc, written |-> 0]

\* the bytes at the path are one whole JSON document
Complete(f) == f.exists /\ f.written = Chunks

(* ------------------------------- errors -------------------------------- *)

\* the errors the calls return: the wrapping message and the cause it wraps
NoErr == "nil"
ErrNilService == "service cannot be nil"
ErrReadIO == "failed to read registry file: input/output error"
ErrReadNotExist == "failed to read registry file: no such file or directory"
ErrReadJSON == "failed to read registry file: unexpected end of JSON input"
ErrWriteIO == "failed to write registry file: input/output error"
ErrMkdir == "failed to create registry directory: permission denied"
ErrInit == "failed to initialize registry file: input/output error"

\* the errors whose cause is an I/O operation the environment made fail
IOErrors == {ErrReadIO, ErrWriteIO, ErrMkdir, ErrInit}

VARIABLES
  file,       \* the file at filePath
  tmp,        \* the file at filePath + ".tmp"
  now,        \* the last value time.Now().Unix() returned
  reg,        \* "none" until New has returned a *Registry, then "ready"
  mu,         \* Registry.mu: [writer: the holder of Lock or 0, readers: the holders of RLock]
  pc,         \* each thread's position
  op,         \* each caller's call in progress: [kind, service, isNil]
  data,       \* the *RegistryData a thread has loaded and is modifying
  instance,   \* the *ServiceInstance Register has built
  err,        \* the error the call is about to return
  result,     \* the slice GetService is about to return
  events,     \* calls invoked, I/O failures and restarts so far
  prevFile,   \* history: the file at filePath before the last rename
  live,       \* history: name -> the services registered and not deregistered, in order
  exitFile,   \* history: the file the previous process left, until this one renames
  regInv,     \* history: <<name, id>> of every Register invoked
  regDone,    \* history: <<name, id>> of every Register that returned nil
  deregInv,   \* history: names of every Deregister invoked
  concurrent, \* history: two Registers of different ids of one name have run concurrently
  before,     \* history: the file at filePath when the caller's Lock returned
  watchers,   \* the *Watcher objects Watch has returned, by their fields
  poller,     \* the goroutine of each Watcher that runs watch()
  client,     \* the goroutines that call Next and Stop: their call in progress
  panicked,   \* the runtime panic that has ended the process, "" if none
  whist,      \* history of each Watcher
  chist       \* history of each client's call in progress

\* the state of the callers of the Registry, and the history of their calls
regvars == <<tmp, reg, mu, pc, op, data, instance, err, result, prevFile, live, exitFile,
             regInv, regDone, deregInv, concurrent, before>>

\* the state of the Watchers and of the goroutines that use them
wvars == <<watchers, poller, client, panicked, whist, chist>>

vars == <<file, tmp, now, reg, mu, pc, op, data, instance, err, result, events, prevFile,
          live, exitFile, regInv, regDone, deregInv, concurrent, before, wvars>>

NoOp == [kind |-> "none", service |-> NoService, isNil |-> FALSE]
NoLock == [writer |-> 0, readers |-> {}]


(* ---------------------- the code's pure computations ------------------- *)

\* the range loop over services: the first index whose ID is id, 0 if none
RECURSIVE FindID(_, _, _)
FindID(services, id, i) ==
  IF i > Len(services) THEN 0
  ELSE IF services[i].ID = id THEN i
  ELSE FindID(services, id, i + 1)

\* Register: the conversion to the internal format
NewInstance(service, t) ==
  [ID |-> service.ID, Name |-> service.Name, Version |-> service.Version,
   Metadata |-> service.Metadata, Endpoints |-> service.Endpoints, Timestamp |-> t]

\* RegisterUpdate without the search for the id: the instance is always appended
RegisterUpdateAppend(d, service, inst, t) ==
  [d EXCEPT !.Services = MapSet(d.Services, service.Name,
                                Append(MapGet(d.Services, service.Name), inst)),
            !.Updated = t]

\* RegisterUpdate that leaves an instance it finds as it is
RegisterUpdateKeep(d, service, inst, t) ==
  LET services == MapGet(d.Services, service.Name)
      i == FindID(services, service.ID, 1)
      updated == IF i > 0 THEN services ELSE Append(services, inst)
  IN  [d EXCEPT !.Services = MapSet(d.Services, service.Name, updated), !.Updated = t]

\* RegisterUpdate that removes the instance it finds and appends the new one
RegisterUpdateMoveLast(d, service, inst, t) ==
  LET services == MapGet(d.Services, service.Name)
      i == FindID(services, service.ID, 1)
      updated == IF i > 0
                 THEN Append(SubSeq(services, 1, i - 1) \o SubSeq(services, i + 1, Len(services)),
                             inst)
                 ELSE Append(services, inst)
  IN  [d EXCEPT !.Services = MapSet(d.Services, service.Name, updated), !.Updated = t]

\* RegisterUpdate that leaves the timestamp of an instance it replaces as it was
RegisterUpdateKeepTime(d, service, inst, t) ==
  LET services == MapGet(d.Services, service.Name)
      i == FindID(services, service.ID, 1)
      updated == IF i > 0
                 THEN [services EXCEPT ![i] = [inst EXCEPT !.Timestamp = services[i].Timestamp]]
                 ELSE Append(services, inst)
  IN  [d EXCEPT !.Services = MapSet(d.Services, service.Name, updated), !.Updated = t]

\* RegisterUpdate that puts a new instance first in the sequence of its name
RegisterUpdatePrepend(d, service, inst, t) ==
  LET services == MapGet(d.Services, service.Name)
      i == FindID(services, service.ID, 1)
      updated == IF i > 0 THEN [services EXCEPT ![i] = inst] ELSE <<inst>> \o services
  IN  [d EXCEPT !.Services = MapSet(d.Services, service.Name, updated), !.Updated = t]

\* Register: add or update the instance in the loaded data, then stamp it
RegisterUpdate(d, service, inst, t) ==
  LET services == MapGet(d.Services, service.Name)
      i == FindID(services, service.ID, 1)
      updated == IF i > 0 THEN [services EXCEPT ![i] = inst] ELSE Append(services, inst)
  IN  [d EXCEPT !.Services = MapSet(d.Services, service.Name, updated), !.Updated = t]

\* DeregisterUpdate that removes the first instance of the name when it finds the id
DeregisterUpdateFirst(d, service, t) ==
  LET services == MapGet(d.Services, service.Name)
      i == FindID(services, service.ID, 1)
      removed == IF i > 0 THEN Tail(services) ELSE services
  IN  [d EXCEPT !.Services = IF Len(removed) = 0
                             THEN MapDelete(d.Services, service.Name)
                             ELSE MapSet(d.Services, service.Name, removed),
                !.Updated = t]

\* DeregisterUpdate whose loop index, when the id is not found, is left on the last instance
DeregisterUpdateDropLast(d, service, t) ==
  LET services == MapGet(d.Services, service.Name)
      f == FindID(services, service.ID, 1)
      i == IF f > 0 THEN f ELSE Len(services)
      removed == IF i > 0
                 THEN SubSeq(services, 1, i - 1) \o SubSeq(services, i + 1, Len(services))
                 ELSE services
  IN  [d EXCEPT !.Services = IF Len(removed) = 0
                             THEN MapDelete(d.Services, service.Name)
                             ELSE MapSet(d.Services, service.Name, removed),
                !.Updated = t]

\* DeregisterUpdate that stores the sequence under the name also when it is empty
DeregisterUpdateKeepKey(d, service, t) ==
  LET services == MapGet(d.Services, service.Name)
      i == FindID(services, service.ID, 1)
      removed == IF i > 0
                 THEN SubSeq(services, 1, i - 1) \o SubSeq(services, i + 1, Len(services))
                 ELSE services
  IN  [d EXCEPT !.Services = MapSet(d.Services, service.Name, removed), !.Updated = t]

\* Deregister: remove the instance from the loaded data, then stamp it
DeregisterUpdate(d, service, t) ==
  LET services == MapGet(d.Services, service.Name)
      i == FindID(services, service.ID, 1)
      removed == IF i > 0
                 THEN SubSeq(services, 1, i - 1) \o SubSeq(services, i + 1, Len(services))
                 ELSE services
  IN  [d EXCEPT !.Services = IF Len(removed) = 0
                             THEN MapDelete(d.Services, service.Name)
                             ELSE MapSet(d.Services, service.Name, removed),
                !.Updated = t]

\* GetService: the conversion back to kratos instances
ConvertInstances(instances) ==
  [i \in 1..Len(instances) |->
     [ID |-> instances[i].ID, Name |-> instances[i].Name, Version |-> instances[i].Version,
      Metadata |-> instances[i].Metadata, Endpoints |-> instances[i].Endpoints]]

\* the instances of every name, one name after the other
RECURSIVE AllInstances(_, _)
AllInstances(m, keys) ==
  IF keys = {} THEN << >>
  ELSE LET k == CHOOSE x \in keys : TRUE
       IN  m[k] \o AllInstances(m, keys \ {k})

\* GetServiceResult that does not select by name
GetServiceResultAll(d, serviceName) == ConvertInstances(AllInstances(d.Services, DOMAIN d.Services))

\* GetService: the instances of the name in the loaded data, converted
GetServiceResult(d, serviceName) == ConvertInstances(MapGet(d.Services, serviceName))

\* New: the initial data
InitialData(t) == [Services |-> EmptyMap, Version |-> "1.0.0", Updated |-> t]

(* ------------------- history: the registry as a table ------------------ *)

\* what a completed Register / Deregister means for the table of a name
TablePut(s, service) ==
  IF \E i \in 1..Len(s) : s[i].ID = service.ID
  THEN [i \in 1..Len(s) |-> IF s[i].ID = service.ID THEN service ELSE s[i]]
  ELSE s \o <<service>>

TableDrop(s, id) == SelectSeq(s, LAMBDA x : x.ID # id)

LiveAfter(o) ==
  IF o.kind = "Register"
  THEN [live EXCEPT ![o.service.Name] = TablePut(@, o.service)]
  ELSE IF o.kind = "Deregister"
  THEN [live EXCEPT ![o.service.Name] = TableDrop(@, o.service.ID)]
  ELSE live

Busy(kind) == {p \in Procs : pc[p] # "idle" /\ op[p].kind = kind /\ ~op[p].isNil}

(* ------------------------- the Watcher's values ------------------------ *)

\* the Watchers a run creates
Watchers == {1}
\* the Watchers of a run in which Watch is called twice
BothWatchers == {1, 2}
\* the goroutines that use a Watcher: any of them may call Stop
Clients == {1, 2}
\* the goroutines that call Next: a Watcher has one consumer loop
Consumers == {1}

\* make(chan T, 1): the values buffered, and whether close has been called
NoChan == [buf |-> << >>, closed |-> FALSE]

\* a nil slice of instances, and a slice that is not nil
NilSlice == [nil |-> TRUE, list |-> << >>]
Slice(instances) == [nil |-> FALSE, list |-> instances]

\* ErrWatcherStopped
ErrWatcherStopped == "watcher stopped"

\* a Watcher: made is FALSE until Watch has built it; done is w.ctx.Done()
\* being closed; mu is the client that holds w.mu.Lock, or 0; parent is the
\* context the caller passed to Watch being cancelled
NoWatcher ==
  [made |-> FALSE, serviceName |-> "", stopped |-> FALSE, done |-> FALSE,
   ch |-> NoChan, errorCh |-> NoChan, mu |-> 0, parent |-> FALSE]

\* the goroutine of watch(): its position and its locals instances and err
NoPoller == [pc |-> "none", instances |-> << >>, err |-> NoErr]

\* a client's call in progress: Next or Stop on Watcher w, and what it returns
NoCall == [pc |-> "idle", w |-> 0, err |-> NoErr, result |-> NilSlice]

\* history of a Watcher: Stop has been invoked, Stop has returned, how many
\* times Stop has run its transition, what the name held when Watch returned,
\* whether the name has been mutated since, whether a Next has been invoked,
\* what the latest successful GetService of watch() fetched, whether a
\* GetService of watch() has failed, how many have failed, how many of
\* their errors Next has received, which of w.ch and w.errorCh holds the
\* item watch() sent first when both hold one, and whether a Next has taken
\* the other one
NoHistory ==
  [stopCalled |-> FALSE, stopReturned |-> FALSE, transitions |-> 0, atWatch |-> << >>,
   mutated |-> FALSE, nextCalled |-> FALSE, lastFetch |-> NilSlice, readFailed |-> FALSE,
   pollErrors |-> 0, nextErrors |-> 0, older |-> "none", reordered |-> FALSE]

\* history of a Next in progress: it was invoked after a Stop had returned,
\* it was blocked with nothing buffered when Stop set w.stopped, it was invoked
\* after the caller's context was cancelled, it is the Watcher's first Next,
\* the ids registered when it was invoked and not deregistered since, and
\* whether what it received was the latest fetch
NoCallHistory ==
  [afterStop |-> FALSE, blocked |-> FALSE, afterCancel |-> FALSE, first |-> FALSE,
   must |-> {}, latest |-> TRUE]

(* -------------------------------- Init --------------------------------- *)

Init ==
  /\ file = NoFile
  /\ tmp = NoFile
  /\ now = 1
  /\ reg = "none"
  /\ mu = NoLock
  /\ pc = [t \in Threads |-> IF t = Main THEN "new" ELSE "idle"]
  /\ op = [p \in Procs |-> NoOp]
  /\ data = [t \in Threads |-> NoData]
  /\ instance = [p \in Procs |-> NoInstance]
  /\ err = [t \in Threads |-> NoErr]
  /\ result = [p \in Procs |-> << >>]
  /\ events = 0
  /\ prevFile = NoFile
  /\ live = [n \in Names |-> << >>]
  /\ exitFile = NoFile
  /\ regInv = {}
  /\ regDone = {}
  /\ deregInv = {}
  /\ concurrent = FALSE
  /\ before = [p \in Procs |-> NoFile]
  /\ watchers = [w \in BothWatchers |-> NoWatcher]
  /\ poller = [w \in BothWatchers |-> NoPoller]
  /\ client = [c \in Clients |-> NoCall]
  /\ panicked = ""
  /\ whist = [w \in BothWatchers |-> NoHistory]
  /\ chist = [c \in Clients |-> NoCallHistory]

(* --------------------------- the environment --------------------------- *)

\* time.Now().Unix(): the clock never runs backwards; how far it has advanced
\* shows only where the code reads it
Clock == {t \in Times : t >= now}

\* the process dies (a crash at any step, or an orderly exit) and is started
\* again: every goroutine and the Registry are gone, the two files stay
Restart ==
  /\ events < MaxEvents
  /\ events' = events + 1
  /\ reg' = "none"
  /\ mu' = NoLock
  /\ pc' = [t \in Threads |-> IF t = Main THEN "new" ELSE "idle"]
  /\ op' = [p \in Procs |-> NoOp]
  /\ data' = [t \in Threads |-> NoData]
  /\ instance' = [p \in Procs |-> NoInstance]
  /\ err' = [t \in Threads |-> NoErr]
  /\ result' = [p \in Procs |-> << >>]
  /\ exitFile' = file
  /\ before' = [p \in Procs |-> NoFile]
  /\ UNCHANGED <<file, tmp, now, prevFile, live, regInv, regDone, deregInv,
                 concurrent, wvars>>

(* --------------------------------- New --------------------------------- *)

\* os.MkdirAll(dir, 0755)
NewMkdirAll ==
  /\ pc[Main] = "new"
  /\ \/ /\ pc' = [pc EXCEPT ![Main] = "stat"]
        /\ UNCHANGED <<err, events>>
     \/ /\ events < MaxEvents
        /\ events' = events + 1
        /\ err' = [err EXCEPT ![Main] = ErrMkdir]
        /\ pc' = [pc EXCEPT ![Main] = "failed"]
  /\ UNCHANGED <<file, tmp, now, reg, mu, op, data, instance, result, prevFile,
                 live, exitFile, regInv, regDone, deregInv, concurrent,
                 before, wvars>>

\* NewStat without the test for the file: the initial data is always built
NewStatAlways ==
  /\ pc[Main] = "stat"
  /\ \E t \in Clock :
       /\ now' = t
       /\ data' = [data EXCEPT ![Main] = InitialData(t)]
  /\ pc' = [pc EXCEPT ![Main] = "wopen"]
  /\ UNCHANGED <<file, tmp, reg, mu, op, instance, err, result, events, prevFile, live,
                 exitFile, regInv, regDone, deregInv, concurrent,
                 before, wvars>>

\* os.Stat(filePath): the initial data is built only when the file does not exist
NewStat ==
  /\ pc[Main] = "stat"
  /\ IF ~file.exists
     THEN /\ \E t \in Clock :
               /\ now' = t
               /\ data' = [data EXCEPT ![Main] = InitialData(t)]
          /\ pc' = [pc EXCEPT ![Main] = "wopen"]
     ELSE /\ pc' = [pc EXCEPT ![Main] = "made"]
          /\ UNCHANGED <<now, data>>
  /\ UNCHANGED <<file, tmp, reg, mu, op, instance, err, result, events, prevFile, live,
                 exitFile, regInv, regDone, deregInv, concurrent,
                 before, wvars>>

\* return &Registry{...}, nil
NewReturn ==
  /\ pc[Main] = "made"
  /\ reg' = "ready"
  /\ pc' = [pc EXCEPT ![Main] = "done"]
  /\ data' = [data EXCEPT ![Main] = NoData]
  /\ UNCHANGED <<file, tmp, now, mu, op, instance, err, result, events, prevFile, live,
                 exitFile, regInv, regDone, deregInv, concurrent,
                 before, wvars>>


(* ------------------------- invoking the calls -------------------------- *)

\* a caller invokes Register(ctx, service) with a service that is not nil
CallRegister(p) ==
  /\ reg = "ready" /\ pc[p] = "idle" /\ events < MaxEvents
  /\ \E service \in KratosInstances :
       /\ op' = [op EXCEPT ![p] = [kind |-> "Register", service |-> service, isNil |-> FALSE]]
       /\ regInv' = regInv \cup {<<service.Name, service.ID>>}
       /\ concurrent' = (concurrent \/ \E q \in Busy("Register") :
                                          /\ op[q].service.Name = service.Name
                                          /\ op[q].service.ID # service.ID)
  /\ pc' = [pc EXCEPT ![p] = "lock"]
  /\ events' = events + 1
  /\ UNCHANGED <<file, tmp, now, reg, mu, data, instance, err, result, prevFile,
                 live, exitFile, regDone, deregInv,
                 before, wvars>>

\* CallRegisterNil that tests for nil only after it has taken the lock
CallRegisterNilLocked(p) ==
  /\ reg = "ready" /\ pc[p] = "idle" /\ events < MaxEvents
  /\ op' = [op EXCEPT ![p] = [kind |-> "Register", service |-> NoService, isNil |-> TRUE]]
  /\ err' = [err EXCEPT ![p] = ErrNilService]
  /\ pc' = [pc EXCEPT ![p] = "lock"]
  /\ events' = events + 1
  /\ UNCHANGED <<file, tmp, now, reg, mu, data, instance, result, prevFile, live,
                 exitFile, regInv, regDone, deregInv, concurrent,
                 before, wvars>>

\* a caller invokes Register(ctx, nil): it returns before the lock is taken
CallRegisterNil(p) ==
  /\ reg = "ready" /\ pc[p] = "idle" /\ events < MaxEvents
  /\ op' = [op EXCEPT ![p] = [kind |-> "Register", service |-> NoService, isNil |-> TRUE]]
  /\ err' = [err EXCEPT ![p] = ErrNilService]
  /\ pc' = [pc EXCEPT ![p] = "ret"]
  /\ events' = events + 1
  /\ UNCHANGED <<file, tmp, now, reg, mu, data, instance, result, prevFile, live,
                 exitFile, regInv, regDone, deregInv, concurrent,
                 before, wvars>>

\* a caller invokes Deregister(ctx, service)
CallDeregister(p) ==
  /\ reg = "ready" /\ pc[p] = "idle" /\ events < MaxEvents
  /\ \E service \in DeregisterArgs :
       /\ op' = [op EXCEPT ![p] = [kind |-> "Deregister", service |-> service, isNil |-> FALSE]]
       /\ deregInv' = deregInv \cup {service.Name}
  /\ pc' = [pc EXCEPT ![p] = "lock"]
  /\ events' = events + 1
  /\ UNCHANGED <<file, tmp, now, reg, mu, data, instance, err, result, prevFile,
                 live, exitFile, regInv, regDone, concurrent,
                 before, wvars>>

\* a caller invokes GetService(ctx, serviceName)
CallGetService(p) ==
  /\ reg = "ready" /\ pc[p] = "idle" /\ events < MaxEvents
  /\ \E name \in Names :
       op' = [op EXCEPT ![p] = [kind |-> "GetService",
                                service |-> [NoService EXCEPT !.Name = name],
                                isNil |-> FALSE]]
  /\ pc' = [pc EXCEPT ![p] = "rlock"]
  /\ events' = events + 1
  /\ UNCHANGED <<file, tmp, now, reg, mu, data, instance, err, result, prevFile,
                 live, exitFile, regInv, regDone, deregInv, concurrent,
                 before, wvars>>

(* ------------------------------ the mutex ------------------------------ *)

\* Lock that takes the mutex as a reader does
LockShared(p) ==
  /\ pc[p] = "lock"
  /\ mu.writer = 0
  /\ mu' = [mu EXCEPT !.readers = @ \cup {p}]
  /\ pc' = [pc EXCEPT ![p] = "read"]
  /\ before' = [before EXCEPT ![p] = file]
  /\ UNCHANGED <<file, tmp, now, reg, op, data, instance, err, result, events, prevFile,
                 live, exitFile, regInv, regDone, deregInv, concurrent, wvars>>

\* Lock that does not wait for the mutex
LockNoWait(p) ==
  /\ pc[p] = "lock"
  /\ mu' = [mu EXCEPT !.writer = p]
  /\ pc' = [pc EXCEPT ![p] = "read"]
  /\ before' = [before EXCEPT ![p] = file]
  /\ UNCHANGED <<file, tmp, now, reg, op, data, instance, err, result, events, prevFile,
                 live, exitFile, regInv, regDone, deregInv, concurrent, wvars>>

\* r.mu.Lock()
Lock(p) ==
  /\ pc[p] = "lock"
  /\ mu.writer = 0 /\ mu.readers = {}
  /\ mu' = [mu EXCEPT !.writer = p]
  /\ pc' = [pc EXCEPT ![p] = "read"]
  /\ before' = [before EXCEPT ![p] = file]
  /\ UNCHANGED <<file, tmp, now, reg, op, data, instance, err, result, events, prevFile,
                 live, exitFile, regInv, regDone, deregInv, concurrent, wvars>>

\* r.mu.RLock()
RLock(p) ==
  /\ pc[p] = "rlock"
  /\ mu.writer = 0
  /\ mu' = [mu EXCEPT !.readers = @ \cup {p}]
  /\ pc' = [pc EXCEPT ![p] = "read"]
  /\ UNCHANGED <<file, tmp, now, reg, op, data, instance, err, result, events, prevFile,
                 live, exitFile, regInv, regDone, deregInv, concurrent,
                 before, wvars>>

(* --------------------------- readRegistryFile -------------------------- *)

\* ReadRegistryFile that reads the temporary file when a whole document is there
ReadRegistryFileTemp(p) ==
  LET f == IF Complete(tmp) THEN tmp ELSE file IN
  /\ pc[p] = "read"
  /\ Complete(f)
  /\ data' = [data EXCEPT ![p] = Unmarshal(f.doc)]
  /\ IF op[p].kind = "GetService"
     THEN /\ result' = [result EXCEPT ![p] =
                          GetServiceResult(Unmarshal(f.doc), op[p].service.Name)]
          /\ pc' = [pc EXCEPT ![p] = "ret"]
     ELSE /\ pc' = [pc EXCEPT ![p] = "modify"]
          /\ UNCHANGED result
  /\ UNCHANGED <<file, tmp, now, reg, mu, op, instance, err, events, prevFile, live,
                 exitFile, regInv, regDone, deregInv, concurrent,
                 before, wvars>>

\* os.ReadFile and json.Unmarshal succeed; GetService goes on to build its result
ReadRegistryFile(p) ==
  /\ pc[p] = "read"
  /\ Complete(file)
  /\ data' = [data EXCEPT ![p] = Unmarshal(file.doc)]
  /\ IF op[p].kind = "GetService"
     THEN /\ result' = [result EXCEPT ![p] =
                          GetServiceResult(Unmarshal(file.doc), op[p].service.Name)]
          /\ pc' = [pc EXCEPT ![p] = "ret"]
     ELSE /\ pc' = [pc EXCEPT ![p] = "modify"]
          /\ UNCHANGED result
  /\ UNCHANGED <<file, tmp, now, reg, mu, op, instance, err, events, prevFile, live,
                 exitFile, regInv, regDone, deregInv, concurrent,
                 before, wvars>>

\* ReadRegistryFileFails after which Register and Deregister go on with no data
ReadRegistryFileFailsGoesOn(p) ==
  /\ pc[p] = "read"
  /\ \/ /\ ~Complete(file)
        /\ err' = [err EXCEPT ![p] = IF file.exists THEN ErrReadJSON ELSE ErrReadNotExist]
        /\ UNCHANGED events
     \/ /\ events < MaxEvents
        /\ events' = events + 1
        /\ err' = [err EXCEPT ![p] = ErrReadIO]
  /\ pc' = [pc EXCEPT ![p] = IF op[p].kind = "GetService" THEN "ret" ELSE "modify"]
  /\ UNCHANGED <<file, tmp, now, reg, mu, op, data, instance, result, prevFile,
                 live, exitFile, regInv, regDone, deregInv, concurrent,
                 before, wvars>>

\* os.ReadFile fails (no such file, or an I/O error), or the bytes do not decode
ReadRegistryFileFails(p) ==
  /\ pc[p] = "read"
  /\ \/ /\ ~Complete(file)
        /\ err' = [err EXCEPT ![p] = IF file.exists THEN ErrReadJSON ELSE ErrReadNotExist]
        /\ UNCHANGED events
     \/ /\ events < MaxEvents
        /\ events' = events + 1
        /\ err' = [err EXCEPT ![p] = ErrReadIO]
  /\ pc' = [pc EXCEPT ![p] = "ret"]
  /\ UNCHANGED <<file, tmp, now, reg, mu, op, data, instance, result, prevFile,
                 live, exitFile, regInv, regDone, deregInv, concurrent,
                 before, wvars>>

(* ------------------------ Register and Deregister ---------------------- *)

\* Register, from the conversion of the service to data.Updated: the clock is
\* read for the instance's Timestamp and again for Updated
RegisterModify(p) ==
  /\ pc[p] = "modify" /\ op[p].kind = "Register"
  /\ \E t1 \in Clock : \E t2 \in {t \in Times : t >= t1} :
       /\ instance' = [instance EXCEPT ![p] = NewInstance(op[p].service, t1)]
       /\ data' = [data EXCEPT ![p] =
                     RegisterUpdate(data[p], op[p].service, NewInstance(op[p].service, t1), t2)]
       /\ now' = t2
  /\ pc' = [pc EXCEPT ![p] = "wopen"]
  /\ UNCHANGED <<file, tmp, reg, mu, op, err, result, events, prevFile, live, exitFile,
                 regInv, regDone, deregInv, concurrent,
                 before, wvars>>

\* Deregister, from the loop over the instances of the name to data.Updated
DeregisterModify(p) ==
  /\ pc[p] = "modify" /\ op[p].kind = "Deregister" /\ ~op[p].isNil
  /\ \E t \in Clock :
       /\ data' = [data EXCEPT ![p] = DeregisterUpdate(data[p], op[p].service, t)]
       /\ now' = t
  /\ pc' = [pc EXCEPT ![p] = "wopen"]
  /\ UNCHANGED <<file, tmp, reg, mu, op, instance, err, result, events, prevFile, live,
                 exitFile, regInv, regDone, deregInv, concurrent,
                 before, wvars>>

(* --------------------------- writeRegistryFile ------------------------- *)

\* where a thread goes when writeRegistryFile has returned an error
AfterWriteError(t) == IF t = Main THEN "failed" ELSE "ret"

\* where a thread goes when writeRegistryFile has returned nil
AfterWrite(t) == IF t = Main THEN "made" ELSE "ret"

\* WriteFileOpen on filePath itself instead of the temporary file
WriteFileOpenInPlace(t) ==
  /\ pc[t] = "wopen"
  /\ file' = [exists |-> TRUE, doc |-> MarshalIndent(data[t]), written |-> 0]
  /\ pc' = [pc EXCEPT ![t] = "wwrite"]
  /\ UNCHANGED <<tmp, now, reg, mu, op, data, instance, err, result, events, prevFile, live,
                 exitFile, regInv, regDone, deregInv, concurrent,
                 before, wvars>>

\* os.WriteFile(tempFile, jsonData, 0644): open with O_CREATE|O_TRUNC
WriteFileOpen(t) ==
  /\ pc[t] = "wopen"
  /\ tmp' = [exists |-> TRUE, doc |-> MarshalIndent(data[t]), written |-> 0]
  /\ pc' = [pc EXCEPT ![t] = "wwrite"]
  /\ UNCHANGED <<file, now, reg, mu, op, data, instance, err, result, events, prevFile, live,
                 exitFile, regInv, regDone, deregInv, concurrent,
                 before, wvars>>

\* os.WriteFile: one more piece of the document reaches the file
WriteFileWrite(t) ==
  /\ pc[t] = "wwrite"
  /\ tmp' = [tmp EXCEPT !.written = @ + 1]
  /\ pc' = [pc EXCEPT ![t] = IF tmp.written + 1 >= Chunks THEN "rename" ELSE "wwrite"]
  /\ UNCHANGED <<file, now, reg, mu, op, data, instance, err, result, events, prevFile, live,
                 exitFile, regInv, regDone, deregInv, concurrent,
                 before, wvars>>

\* os.Rename(tempFile, filePath)
Rename(t) ==
  /\ pc[t] = "rename"
  /\ file' = tmp
  /\ tmp' = NoFile
  /\ pc' = [pc EXCEPT ![t] = AfterWrite(t)]
  /\ prevFile' = file
  /\ live' = IF t = Main THEN live ELSE LiveAfter(op[t])
  /\ exitFile' = IF t = Main THEN exitFile ELSE NoFile
  /\ UNCHANGED <<now, reg, mu, op, data, instance, err, result, events, regInv, regDone,
                 deregInv, concurrent,
                 before, wvars>>

\* WriteRegistryFileFails whose rename has replaced the file before it fails
WriteRegistryFileFailsLate(t) ==
  /\ pc[t] \in {"wopen", "wwrite", "rename"}
  /\ events < MaxEvents
  /\ events' = events + 1
  /\ file' = IF pc[t] = "rename" THEN tmp ELSE file
  /\ err' = [err EXCEPT ![t] = IF t = Main THEN ErrInit ELSE ErrWriteIO]
  /\ pc' = [pc EXCEPT ![t] = AfterWriteError(t)]
  /\ UNCHANGED <<tmp, now, reg, mu, op, data, instance, result, prevFile,
                 live, exitFile, regInv, regDone, deregInv, concurrent,
                 before, wvars>>

\* os.WriteFile or os.Rename fails: writeRegistryFile returns the error
WriteRegistryFileFails(t) ==
  /\ pc[t] \in {"wopen", "wwrite", "rename"}
  /\ events < MaxEvents
  /\ events' = events + 1
  /\ err' = [err EXCEPT ![t] = IF t = Main THEN ErrInit ELSE ErrWriteIO]
  /\ pc' = [pc EXCEPT ![t] = AfterWriteError(t)]
  /\ UNCHANGED <<file, tmp, now, reg, mu, op, data, instance, result, prevFile,
                 live, exitFile, regInv, regDone, deregInv, concurrent,
                 before, wvars>>

(* ------------------------------ returning ------------------------------ *)

\* the call returns err (and result); the deferred Unlock / RUnlock runs
Return(p) ==
  /\ pc[p] = "ret"
  /\ mu' = [writer |-> IF mu.writer = p THEN 0 ELSE mu.writer, readers |-> mu.readers \ {p}]
  /\ regDone' = IF op[p].kind = "Register" /\ err[p] = NoErr
                THEN regDone \cup {<<op[p].service.Name, op[p].service.ID>>}
                ELSE regDone
  /\ pc' = [pc EXCEPT ![p] = "idle"]
  /\ op' = [op EXCEPT ![p] = NoOp]
  /\ data' = [data EXCEPT ![p] = NoData]
  /\ instance' = [instance EXCEPT ![p] = NoInstance]
  /\ err' = [err EXCEPT ![p] = NoErr]
  /\ result' = [result EXCEPT ![p] = << >>]
  /\ before' = [before EXCEPT ![p] = NoFile]
  /\ UNCHANGED <<file, tmp, now, reg, events, prevFile, live, exitFile, regInv, deregInv,
                 concurrent, wvars>>

(* ------------------------------ the system ----------------------------- *)

Next ==
  \/ Restart
  \/ NewMkdirAll
  \/ NewStat
  \/ NewReturn
  \/ \E p \in Procs : CallRegister(p)
  \/ \E p \in Procs : CallRegisterNil(p)
  \/ \E p \in Procs : CallDeregister(p)
  \/ \E p \in Procs : CallGetService(p)
  \/ \E p \in Procs : Lock(p)
  \/ \E p \in Procs : RLock(p)
  \/ \E p \in Procs : ReadRegistryFile(p)
  \/ \E p \in Procs : ReadRegistryFileFails(p)
  \/ \E p \in Procs : RegisterModify(p)
  \/ \E p \in Procs : DeregisterModify(p)
  \/ \E t \in Threads : WriteFileOpen(t)
  \/ \E t \in Threads : WriteFileWrite(t)
  \/ \E t \in Threads : Rename(t)
  \/ \E t \in Threads : WriteRegistryFileFails(t)
  \/ \E p \in Procs : Return(p)

Spec == Init /\ [][Next]_vars

(***************************************************************************)
(* The Watcher of a service name: Watch of registry.go, and NewWatcher,    *)
(* Next, Stop and the goroutine watch().  Here a Register, a Deregister    *)
(* and the GetService of watch() are one step each: they are serialized by *)
(* Registry.mu and the file changes only in the rename.  Every statement   *)
(* of Next, Stop and watch() between two accesses to w.mu, w.stopped,      *)
(* w.ctx, w.ch or w.errorCh is one step.                                   *)
(***************************************************************************)

\* the Registry that New has returned on a new path
InitW ==
  /\ file = [exists |-> TRUE, doc |-> MarshalIndent(InitialData(1)), written |-> Chunks]
  /\ tmp = NoFile
  /\ now = 1
  /\ reg = "ready"
  /\ mu = NoLock
  /\ pc = [t \in Threads |-> IF t = Main THEN "done" ELSE "idle"]
  /\ op = [p \in Procs |-> NoOp]
  /\ data = [t \in Threads |-> NoData]
  /\ instance = [p \in Procs |-> NoInstance]
  /\ err = [t \in Threads |-> NoErr]
  /\ result = [p \in Procs |-> << >>]
  /\ events = 0
  /\ prevFile = NoFile
  /\ live = [n \in Names |-> << >>]
  /\ exitFile = NoFile
  /\ regInv = {}
  /\ regDone = {}
  /\ deregInv = {}
  /\ concurrent = FALSE
  /\ before = [p \in Procs |-> NoFile]
  /\ watchers = [w \in BothWatchers |-> NoWatcher]
  /\ poller = [w \in BothWatchers |-> NoPoller]
  /\ client = [c \in Clients |-> NoCall]
  /\ panicked = ""
  /\ whist = [w \in BothWatchers |-> NoHistory]
  /\ chist = [c \in Clients |-> NoCallHistory]

\* the Watchers of a name that Watch has built
WatchersOf(name) == {w \in BothWatchers : watchers[w].made /\ watchers[w].serviceName = name}

\* history: the name of these Watchers is mutated
Mutated(ws) == [w \in BothWatchers |-> IF w \in ws THEN [whist[w] EXCEPT !.mutated = TRUE]
                                               ELSE whist[w]]

\* the services registered and deregistered while a Watcher is watched: two
\* ids of one name, one of them in two versions
WatchedInstances ==
  {service \in KratosInstances :
     service.Name = "svc" /\ (service.Version = "v1" \/ service.ID = "1")}
WatchedArgs == {service \in DeregisterArgs : service.Name = "svc"}

\* Register(ctx, service) returns nil; GetService drops the times, which are
\* read here within one second of the clock
Register(service) ==
  /\ panicked = "" /\ events < MaxEvents
  /\ events' = events + 1
  /\ file' = [file EXCEPT !.doc = MarshalIndent(
                 RegisterUpdate(Unmarshal(file.doc), service, NewInstance(service, now), now))]
  /\ whist' = Mutated(WatchersOf(service.Name))
  /\ UNCHANGED <<now, regvars, watchers, poller, client, panicked, chist>>

\* Deregister(ctx, service) returns nil
Deregister(service) ==
  /\ panicked = "" /\ events < MaxEvents
  /\ events' = events + 1
  /\ file' = [file EXCEPT !.doc = MarshalIndent(
                 DeregisterUpdate(Unmarshal(file.doc), service, now))]
  /\ whist' = Mutated(WatchersOf(service.Name))
  /\ chist' = [c \in Clients |->
                 IF client[c].w \in WatchersOf(service.Name)
                 THEN [chist[c] EXCEPT !.must = @ \ {service.ID}]
                 ELSE chist[c]]
  /\ UNCHANGED <<now, regvars, watchers, poller, client, panicked>>

\* Watch(ctx, serviceName): NewWatcher builds the Watcher on a context of its
\* own and starts watch(); ctx is not used
Watch(w, serviceName) ==
  /\ panicked = "" /\ ~watchers[w].made
  /\ watchers' = [watchers EXCEPT ![w] = [NoWatcher EXCEPT !.made = TRUE,
                                                           !.serviceName = serviceName]]
  /\ poller' = [poller EXCEPT ![w] = [NoPoller EXCEPT !.pc = "start"]]
  /\ whist' = [whist EXCEPT ![w] =
                 [NoHistory EXCEPT !.atWatch = GetServiceResult(Unmarshal(file.doc), serviceName)]]
  /\ UNCHANGED <<file, now, events, regvars, client, panicked, chist>>

\* the caller of Watch cancels the context it passed
CancelContext(w) ==
  /\ panicked = "" /\ events < MaxEvents
  /\ watchers[w].made /\ ~watchers[w].parent
  /\ events' = events + 1
  /\ watchers' = [watchers EXCEPT ![w].parent = TRUE]
  /\ UNCHANGED <<file, now, regvars, poller, client, panicked, whist, chist>>

(* --------------------------------- Next -------------------------------- *)

\* the ids of the instances GetService(name) would return now
RegisteredIDs(name) ==
  LET v == GetServiceResult(Unmarshal(file.doc), name)
  IN  {v[i].ID : i \in 1..Len(v)}

\* a client invokes w.Next()
CallNext(c, w) ==
  /\ panicked = "" /\ client[c].pc = "idle" /\ watchers[w].made
  /\ client' = [client EXCEPT ![c] = [NoCall EXCEPT !.pc = "next", !.w = w]]
  /\ chist' = [chist EXCEPT ![c] =
                 [NoCallHistory EXCEPT !.afterStop = whist[w].stopReturned,
                                       !.afterCancel = watchers[w].parent,
                                       !.first = ~whist[w].nextCalled,
                                       !.must = RegisteredIDs(watchers[w].serviceName)]]
  /\ whist' = [whist EXCEPT ![w].nextCalled = TRUE]
  /\ UNCHANGED <<file, now, events, regvars, watchers, poller, panicked>>

\* what Next returns, and with what
NextReturns(c, e, r) == [client EXCEPT ![c].pc = "next_ret", ![c].err = e, ![c].result = r]

\* NextCheck that does not test w.stopped
NextCheckNone(c) ==
  LET w == client[c].w IN
  /\ panicked = "" /\ client[c].pc = "next"
  /\ watchers[w].mu = 0
  /\ client' = [client EXCEPT ![c].pc = "select"]
  /\ UNCHANGED <<file, now, events, regvars, watchers, poller, panicked, whist, chist>>

\* w.mu.RLock(); if w.stopped { return nil, ErrWatcherStopped }
NextCheck(c) ==
  LET w == client[c].w IN
  /\ panicked = "" /\ client[c].pc = "next"
  /\ watchers[w].mu = 0
  /\ client' = IF watchers[w].stopped
               THEN NextReturns(c, ErrWatcherStopped, NilSlice)
               ELSE [client EXCEPT ![c].pc = "select"]
  /\ UNCHANGED <<file, now, events, regvars, watchers, poller, panicked, whist, chist>>

\* select: case <-w.ctx.Done()
NextDone(c) ==
  LET w == client[c].w IN
  /\ panicked = "" /\ client[c].pc = "select"
  /\ watchers[w].done
  /\ client' = NextReturns(c, ErrWatcherStopped, NilSlice)
  /\ UNCHANGED <<file, now, events, regvars, watchers, poller, panicked, whist, chist>>

\* select: case err, ok := <-w.errorCh
NextError(c) ==
  LET w == client[c].w
      q == watchers[w].errorCh IN
  /\ panicked = "" /\ client[c].pc = "select"
  /\ IF q.buf # << >>
     THEN /\ client' = NextReturns(c, Head(q.buf), NilSlice)
          /\ watchers' = [watchers EXCEPT ![w].errorCh.buf = Tail(q.buf)]
          /\ whist' = [whist EXCEPT ![w].nextErrors = @ + 1,
                                    ![w].reordered = @ \/ whist[w].older = "ch",
                                    ![w].older = "none"]
     ELSE /\ q.closed
          /\ client' = NextReturns(c, ErrWatcherStopped, NilSlice)
          /\ UNCHANGED <<watchers, whist>>
  /\ UNCHANGED <<file, now, events, regvars, poller, panicked, chist>>

\* select: case instances, ok := <-w.ch
NextInstances(c) ==
  LET w == client[c].w
      q == watchers[w].ch IN
  /\ panicked = "" /\ client[c].pc = "select"
  /\ IF q.buf # << >>
     THEN /\ client' = NextReturns(c, NoErr, Slice(Head(q.buf)))
          /\ watchers' = [watchers EXCEPT ![w].ch.buf = Tail(q.buf)]
          /\ chist' = [chist EXCEPT ![c].latest = (Slice(Head(q.buf)) = whist[w].lastFetch)]
          /\ whist' = [whist EXCEPT ![w].reordered = @ \/ whist[w].older = "errorCh",
                                    ![w].older = "none"]
     ELSE /\ q.closed
          /\ client' = NextReturns(c, ErrWatcherStopped, NilSlice)
          /\ UNCHANGED <<watchers, chist, whist>>
  /\ UNCHANGED <<file, now, events, regvars, poller, panicked>>

\* Next returns to its caller
NextReturn(c) ==
  /\ panicked = "" /\ client[c].pc = "next_ret"
  /\ client' = [client EXCEPT ![c] = NoCall]
  /\ chist' = [chist EXCEPT ![c] = NoCallHistory]
  /\ UNCHANGED <<file, now, events, regvars, watchers, poller, panicked, whist>>

(* --------------------------------- Stop -------------------------------- *)

\* the clients blocked in the select of w.Next() with nothing buffered
Blocked(w) ==
  {c \in Clients : /\ client[c].pc = "select" /\ client[c].w = w
                   /\ ~watchers[w].done
                   /\ watchers[w].ch = NoChan /\ watchers[w].errorCh = NoChan}

\* history: the Nexts that are blocked when Stop sets w.stopped
MarkBlocked(w) ==
  [d \in Clients |-> IF d \in Blocked(w) THEN [chist[d] EXCEPT !.blocked = TRUE] ELSE chist[d]]

\* a client invokes w.Stop()
CallStop(c, w) ==
  /\ panicked = "" /\ client[c].pc = "idle" /\ watchers[w].made
  /\ events < MaxEvents
  /\ events' = events + 1
  /\ client' = [client EXCEPT ![c] = [NoCall EXCEPT !.pc = "stop", !.w = w]]
  /\ whist' = [whist EXCEPT ![w].stopCalled = TRUE]
  /\ UNCHANGED <<file, now, regvars, watchers, poller, panicked, chist>>

\* StopLock without the test of w.stopped
StopLockAlways(c) ==
  LET w == client[c].w IN
  /\ panicked = "" /\ client[c].pc = "stop"
  /\ watchers[w].mu = 0
  /\ watchers' = [watchers EXCEPT ![w].mu = c, ![w].stopped = TRUE]
  /\ client' = [client EXCEPT ![c].pc = "cancel"]
  /\ whist' = [whist EXCEPT ![w].transitions = @ + 1]
  /\ chist' = MarkBlocked(w)
  /\ UNCHANGED <<file, now, events, regvars, poller, panicked>>

\* w.mu.Lock(); if w.stopped { return nil }; w.stopped = true
StopLock(c) ==
  LET w == client[c].w IN
  /\ panicked = "" /\ client[c].pc = "stop"
  /\ watchers[w].mu = 0
  /\ IF watchers[w].stopped
     THEN /\ watchers' = [watchers EXCEPT ![w].mu = c]
          /\ client' = [client EXCEPT ![c].pc = "stop_ret"]
          /\ UNCHANGED <<whist, chist>>
     ELSE /\ watchers' = [watchers EXCEPT ![w].mu = c, ![w].stopped = TRUE]
          /\ client' = [client EXCEPT ![c].pc = "cancel"]
          /\ whist' = [whist EXCEPT ![w].transitions = @ + 1]
          /\ chist' = MarkBlocked(w)
  /\ UNCHANGED <<file, now, events, regvars, poller, panicked>>

\* w.cancel()
StopCancel(c) ==
  LET w == client[c].w IN
  /\ panicked = "" /\ client[c].pc = "cancel"
  /\ watchers' = [watchers EXCEPT ![w].done = TRUE]
  /\ client' = [client EXCEPT ![c].pc = "close_ch"]
  /\ UNCHANGED <<file, now, events, regvars, poller, panicked, whist, chist>>

\* close(w.ch): closing a closed channel panics
StopCloseCh(c) ==
  LET w == client[c].w IN
  /\ panicked = "" /\ client[c].pc = "close_ch"
  /\ IF watchers[w].ch.closed
     THEN /\ panicked' = "close of closed channel"
          /\ UNCHANGED <<watchers, client>>
     ELSE /\ watchers' = [watchers EXCEPT ![w].ch.closed = TRUE]
          /\ client' = [client EXCEPT ![c].pc = "close_errorCh"]
          /\ UNCHANGED panicked
  /\ UNCHANGED <<file, now, events, regvars, poller, whist, chist>>

\* close(w.errorCh); return nil
StopCloseErrorCh(c) ==
  LET w == client[c].w IN
  /\ panicked = "" /\ client[c].pc = "close_errorCh"
  /\ IF watchers[w].errorCh.closed
     THEN /\ panicked' = "close of closed channel"
          /\ UNCHANGED <<watchers, client>>
     ELSE /\ watchers' = [watchers EXCEPT ![w].errorCh.closed = TRUE]
          /\ client' = [client EXCEPT ![c].pc = "stop_ret"]
          /\ UNCHANGED panicked
  /\ UNCHANGED <<file, now, events, regvars, poller, whist, chist>>

\* Stop returns nil; the deferred w.mu.Unlock() runs
StopReturn(c) ==
  LET w == client[c].w IN
  /\ panicked = "" /\ client[c].pc = "stop_ret"
  /\ watchers' = [watchers EXCEPT ![w].mu = 0]
  /\ client' = [client EXCEPT ![c] = NoCall]
  /\ whist' = [whist EXCEPT ![w].stopReturned = TRUE]
  /\ UNCHANGED <<file, now, events, regvars, poller, panicked, chist>>

(* -------------------------------- watch() ------------------------------ *)

\* watch() goes to pos; back in the loop its locals are dead
WatchGoes(w, pos) ==
  [poller EXCEPT ![w] = IF pos \in {"loop", "exit"} THEN [NoPoller EXCEPT !.pc = pos]
                                                     ELSE [poller[w] EXCEPT !.pc = pos]]

\* WatchGetService that looks up another name
WatchGetServiceOther(w) ==
  LET instances == GetServiceResult(Unmarshal(file.doc), "none") IN
  /\ panicked = "" /\ poller[w].pc \in {"start", "get"}
  /\ poller' = [poller EXCEPT ![w].pc = "check", ![w].instances = instances]
  /\ whist' = [whist EXCEPT ![w].lastFetch = Slice(instances)]
  /\ UNCHANGED <<file, now, events, regvars, watchers, client, panicked, chist>>

\* WatchGetService of a tick that goes back to the loop, handing nothing
\* over, when the instances are those of the fetch before
WatchGetServiceOnChange(w) ==
  LET instances == GetServiceResult(Unmarshal(file.doc), watchers[w].serviceName) IN
  /\ panicked = "" /\ poller[w].pc \in {"start", "get"}
  /\ poller' = IF Slice(instances) = whist[w].lastFetch
               THEN WatchGoes(w, "loop")
               ELSE [poller EXCEPT ![w].pc = "check", ![w].instances = instances]
  /\ whist' = [whist EXCEPT ![w].lastFetch = Slice(instances)]
  /\ UNCHANGED <<file, now, events, regvars, watchers, client, panicked, chist>>

\* WatchGetService that writes the document it has read back to the file, stamped
WatchGetServiceTouch(w) ==
  LET d == Unmarshal(file.doc)
      instances == GetServiceResult(d, watchers[w].serviceName) IN
  /\ panicked = "" /\ poller[w].pc \in {"start", "get"}
  /\ poller' = [poller EXCEPT ![w].pc = "check", ![w].instances = instances]
  /\ whist' = [whist EXCEPT ![w].lastFetch = Slice(instances)]
  /\ file' = [file EXCEPT !.doc = MarshalIndent([d EXCEPT !.Updated = now + 1])]
  /\ UNCHANGED <<now, events, regvars, watchers, client, panicked, chist>>

\* w.registry.GetService(w.ctx, w.serviceName) returns the instances: the
\* first fetch, and the fetch of a tick
WatchGetService(w) ==
  LET instances == GetServiceResult(Unmarshal(file.doc), watchers[w].serviceName) IN
  /\ panicked = "" /\ poller[w].pc \in {"start", "get"}
  /\ poller' = [poller EXCEPT ![w].pc = "check", ![w].instances = instances]
  /\ whist' = [whist EXCEPT ![w].lastFetch = Slice(instances)]
  /\ UNCHANGED <<file, now, events, regvars, watchers, client, panicked, chist>>

\* WatchGetServiceFails after which watch() returns instead of going on
WatchGetServiceFailsReturns(w) ==
  /\ panicked = "" /\ poller[w].pc \in {"start", "get"}
  /\ events < MaxEvents
  /\ events' = events + 1
  /\ poller' = WatchGoes(w, "exit")
  /\ whist' = [whist EXCEPT ![w].readFailed = TRUE, ![w].pollErrors = @ + 1]
  /\ UNCHANGED <<file, now, regvars, watchers, client, panicked, chist>>

\* GetService returns an error: the first fetch drops it, a tick goes on to
\* report it
WatchGetServiceFails(w) ==
  /\ panicked = "" /\ poller[w].pc \in {"start", "get"}
  /\ events < MaxEvents
  /\ events' = events + 1
  /\ poller' = IF poller[w].pc = "start"
               THEN WatchGoes(w, "loop")
               ELSE [poller EXCEPT ![w].pc = "check_err", ![w].err = ErrReadIO]
  /\ whist' = [whist EXCEPT ![w].readFailed = TRUE, ![w].pollErrors = @ + 1]
  /\ UNCHANGED <<file, now, regvars, watchers, client, panicked, chist>>

\* w.mu.RLock(); stopped := w.stopped; w.mu.RUnlock(); if !stopped { select ...
\* before a send on w.ch or w.errorCh
WatchCheck(w) ==
  /\ panicked = "" /\ poller[w].pc \in {"check", "check_err"}
  /\ watchers[w].mu = 0
  /\ poller' = WatchGoes(w, IF watchers[w].stopped THEN "loop"
                            ELSE IF poller[w].pc = "check" THEN "send" ELSE "send_err")
  /\ UNCHANGED <<file, now, events, regvars, watchers, client, panicked, whist, chist>>

\* select: case w.ch <- instances; a send on a closed channel panics
WatchSend(w) ==
  /\ panicked = "" /\ poller[w].pc = "send"
  /\ IF watchers[w].ch.closed
     THEN /\ panicked' = "send on closed channel"
          /\ UNCHANGED <<watchers, poller, whist>>
     ELSE /\ watchers[w].ch.buf = << >>
          /\ watchers' = [watchers EXCEPT ![w].ch.buf = <<poller[w].instances>>]
          /\ poller' = WatchGoes(w, "loop")
          /\ whist' = [whist EXCEPT ![w].older =
                         IF watchers[w].errorCh.buf # << >> THEN "errorCh" ELSE "none"]
          /\ UNCHANGED panicked
  /\ UNCHANGED <<file, now, events, regvars, client, chist>>

\* select: case w.errorCh <- err; a send on a closed channel panics
WatchSendError(w) ==
  /\ panicked = "" /\ poller[w].pc = "send_err"
  /\ IF watchers[w].errorCh.closed
     THEN /\ panicked' = "send on closed channel"
          /\ UNCHANGED <<watchers, poller, whist>>
     ELSE /\ watchers[w].errorCh.buf = << >>
          /\ watchers' = [watchers EXCEPT ![w].errorCh.buf = <<poller[w].err>>]
          /\ poller' = WatchGoes(w, "loop")
          /\ whist' = [whist EXCEPT ![w].older =
                         IF watchers[w].ch.buf # << >> THEN "ch" ELSE "none"]
          /\ UNCHANGED panicked
  /\ UNCHANGED <<file, now, events, regvars, client, chist>>

\* select: case <-w.ctx.Done(): return, in the loop and in the sends
WatchDone(w) ==
  /\ panicked = "" /\ poller[w].pc \in {"loop", "send", "send_err"}
  /\ watchers[w].done
  /\ poller' = WatchGoes(w, "exit")
  /\ UNCHANGED <<file, now, events, regvars, watchers, client, panicked, whist, chist>>

\* WatchTick of a ticker that never fires
WatchTickNever(w) ==
  /\ panicked = "" /\ poller[w].pc = "loop"
  /\ FALSE
  /\ poller' = WatchGoes(w, "tick")
  /\ UNCHANGED <<file, now, events, regvars, watchers, client, panicked, whist, chist>>

\* select: case <-ticker.C
WatchTick(w) ==
  /\ panicked = "" /\ poller[w].pc = "loop"
  /\ poller' = WatchGoes(w, "tick")
  /\ UNCHANGED <<file, now, events, regvars, watchers, client, panicked, whist, chist>>

\* w.mu.RLock(); stopped := w.stopped; w.mu.RUnlock(); if stopped { return }
WatchTickCheck(w) ==
  /\ panicked = "" /\ poller[w].pc = "tick"
  /\ watchers[w].mu = 0
  /\ poller' = WatchGoes(w, IF watchers[w].stopped THEN "exit" ELSE "get")
  /\ UNCHANGED <<file, now, events, regvars, watchers, client, panicked, whist, chist>>

(* ------------------------- the Watcher's system ------------------------ *)

NextW ==
  \/ \E service \in WatchedInstances : Register(service)
  \/ \E service \in WatchedArgs : Deregister(service)
  \/ \E w \in Watchers : \E serviceName \in Names : Watch(w, serviceName)
  \/ \E w \in Watchers : CancelContext(w)
  \/ \E c \in Consumers : \E w \in Watchers : CallNext(c, w)
  \/ \E c \in Clients : NextCheck(c)
  \/ \E c \in Clients : NextDone(c)
  \/ \E c \in Clients : NextError(c)
  \/ \E c \in Clients : NextInstances(c)
  \/ \E c \in Clients : NextReturn(c)
  \/ \E c \in Clients : \E w \in Watchers : CallStop(c, w)
  \/ \E c \in Clients : StopLock(c)
  \/ \E c \in Clients : StopCancel(c)
  \/ \E c \in Clients : StopCloseCh(c)
  \/ \E c \in Clients : StopCloseErrorCh(c)
  \/ \E c \in Clients : StopReturn(c)
  \/ \E w \in Watchers : WatchGetService(w)
  \/ \E w \in Watchers : WatchGetServiceFails(w)
  \/ \E w \in Watchers : WatchCheck(w)
  \/ \E w \in Watchers : WatchSend(w)
  \/ \E w \in Watchers : WatchSendError(w)
  \/ \E w \in Watchers : WatchDone(w)
  \/ \E w \in Watchers : WatchTick(w)
  \/ \E w \in Watchers : WatchTickCheck(w)

SpecWatch == InitW /\ [][NextW]_vars

\* the scheduler runs every goroutine that can run and the ticker fires
\* every second, so watch() takes each step it can take; the consumer takes
\* the steps of its Next and, when it has returned, calls Next again
SpecWatchFair ==
  /\ SpecWatch
  /\ \A w \in Watchers :
       /\ WF_vars(WatchGetService(w))
       /\ WF_vars(WatchCheck(w))
       /\ WF_vars(WatchSend(w))
       /\ WF_vars(WatchSendError(w))
       /\ WF_vars(WatchDone(w))
       /\ WF_vars(WatchTick(w))
       /\ WF_vars(WatchTickCheck(w))
  /\ \A c \in Consumers :
       /\ WF_vars(\E w \in Watchers : CallNext(c, w))
       /\ WF_vars(NextCheck(c))
       /\ WF_vars(NextDone(c) \/ NextError(c) \/ NextInstances(c))
       /\ WF_vars(NextReturn(c))

(* ------------------------------ properties ----------------------------- *)

\* what GetService(name) returns when it reads the file f
View(f, name) == GetServiceResult(Unmarshal(f.doc), name)

IDs(instances) == {instances[i].ID : i \in 1..Len(instances)}

CountID(instances, id) == Cardinality({i \in 1..Len(instances) : instances[i].ID = id})

\* caller p is in a call of this kind that is about to return
Returning(p, kind) == pc[p] = "ret" /\ op[p].kind = kind /\ ~op[p].isNil

\* caller p is in a call of this kind that is about to return nil
Succeeded(p, kind) == Returning(p, kind) /\ err[p] = NoErr

\* the threads between the load and the save of the snapshot, the lock still held
InTransaction ==
  {p \in Procs : /\ op[p].kind \in {"Register", "Deregister"}
                 /\ ~op[p].isNil
                 /\ pc[p] \in {"read", "modify", "wopen", "wwrite", "rename", "ret"}}

\* the document without the times the registry stamps on it
StripTimes(doc) ==
  [services |-> [n \in DOMAIN doc.services |->
                   [i \in 1..Len(doc.services[n]) |-> [doc.services[n][i] EXCEPT !.timestamp = 0]]],
   version |-> doc.version,
   updated |-> 0]

\* C1: with no Deregister of the name, every Register fails only on an I/O
\* failure, and a GetService that returns nil returns exactly one instance for
\* every id whose Register has returned nil, no instance twice and none whose
\* Register was never invoked, however the Registers interleaved.
C1_ConcurrentRegister ==
  /\ \A p \in Procs : Returning(p, "Register") => err[p] \in {NoErr} \cup IOErrors
  /\ \A p \in Procs :
       (Succeeded(p, "GetService") /\ op[p].service.Name \notin deregInv) =>
         LET name == op[p].service.Name
         IN  /\ \A r \in regDone : r[1] = name => CountID(result[p], r[2]) = 1
             /\ \A id \in IDs(result[p]) : <<name, id>> \in regInv
             /\ Len(result[p]) = Cardinality(IDs(result[p]))

\* two Registers of different ids of one name ran concurrently, both returned
\* nil, and GetService is returning the two instances
C1_Witness ==
  \E p \in Procs :
    /\ Succeeded(p, "GetService")
    /\ concurrent
    /\ deregInv = {}
    /\ Cardinality({r \in regDone : r[1] = op[p].service.Name}) = 2
    /\ Len(result[p]) = 2

\* C2: at most one Register or Deregister is between its load and its save,
\* and the persisted snapshot is the outcome of the calls applied one at a time,
\* in the order of their saves, each to what the one before it left.
C2_Serialized ==
  /\ Cardinality(InTransaction) <= 1
  /\ file.exists => \A name \in Names : View(file, name) = live[name]

\* a Register has saved while a Deregister invoked meanwhile waits for the lock
C2_Witness ==
  \E p, q \in Procs :
    /\ Succeeded(p, "Register")
    /\ View(file, op[p].service.Name) # View(prevFile, op[p].service.Name)
    /\ op[q].kind = "Deregister" /\ pc[q] = "lock"
    /\ op[q].service.Name = op[p].service.Name

\* C3: in the persisted snapshot no two instances of a name have the same id.
C3_UniqueIds ==
  file.exists =>
    \A name \in DOMAIN file.doc.services :
      \A i, j \in 1..Len(file.doc.services[name]) :
        i # j => file.doc.services[name][i].id # file.doc.services[name][j].id

\* an id has been registered again while the name held two instances
C3_Witness ==
  \E p \in Procs :
    /\ Succeeded(p, "Register")
    /\ op[p].service.ID \in IDs(View(prevFile, op[p].service.Name))
    /\ Len(View(file, op[p].service.Name)) = 2

\* C4: when Register of an existing (name, id) returns nil, GetService(name)
\* returns exactly one instance of that id, with the version, endpoints and
\* metadata of this call.
C4_ReplaceOnConflict ==
  \A p \in Procs :
    (Succeeded(p, "Register")
       /\ op[p].service.ID \in IDs(View(prevFile, op[p].service.Name))) =>
      LET v == View(file, op[p].service.Name)
      IN  /\ CountID(v, op[p].service.ID) = 1
          /\ \A i \in 1..Len(v) : v[i].ID = op[p].service.ID => v[i] = op[p].service

\* an instance has been registered again with another version, other endpoints
\* and other metadata
C4_Witness ==
  \E p \in Procs :
    /\ Succeeded(p, "Register")
    /\ \E i \in 1..Len(View(prevFile, op[p].service.Name)) :
         LET old == View(prevFile, op[p].service.Name)[i]
         IN  /\ old.ID = op[p].service.ID
             /\ old.Version # op[p].service.Version
             /\ old.Endpoints # op[p].service.Endpoints
             /\ old.Metadata # op[p].service.Metadata

\* C5: a Register of an instance the snapshot already holds with the same
\* version, endpoints and metadata leaves the same names and instances, in the
\* same order and with the same fields; only timestamps and updated may change.
C5_IdempotentRegister ==
  \A p \in Procs :
    (Succeeded(p, "Register")
       /\ \E i \in 1..Len(View(prevFile, op[p].service.Name)) :
            View(prevFile, op[p].service.Name)[i] = op[p].service) =>
      StripTimes(file.doc) = StripTimes(prevFile.doc)

\* the first of two instances of a name has been registered a second time, at
\* a later time
C5_Witness ==
  \E p \in Procs :
    /\ Succeeded(p, "Register")
    /\ Len(View(prevFile, op[p].service.Name)) = 2
    /\ View(prevFile, op[p].service.Name)[1] = op[p].service
    /\ file.doc.services # prevFile.doc.services

\* C6: when Deregister(name, id) returns nil the persisted snapshot holds no
\* instance of that (name, id), and if it was the only instance of the name
\* GetService(name) returns the empty sequence.
C6_DeregisterRemoves ==
  \A p \in Procs :
    Succeeded(p, "Deregister") =>
      LET name == op[p].service.Name
          id == op[p].service.ID
      IN  /\ CountID(View(file, name), id) = 0
          /\ IDs(View(prevFile, name)) \subseteq {id} => View(file, name) = << >>

\* the only instance of a name has been deregistered
C6_Witness ==
  \E p \in Procs :
    /\ Succeeded(p, "Deregister")
    /\ IDs(View(prevFile, op[p].service.Name)) = {op[p].service.ID}
    /\ View(file, op[p].service.Name) = << >>

\* C7: a Deregister fails only on an I/O failure, and when the (name, id) is
\* not registered it leaves the instance sequence of every name as it was.
C7_DeregisterUnknown ==
  \A p \in Procs :
    /\ Returning(p, "Deregister") => err[p] \in {NoErr} \cup IOErrors
    /\ (Succeeded(p, "Deregister")
          /\ op[p].service.ID \notin IDs(View(prevFile, op[p].service.Name))) =>
         file.doc.services = prevFile.doc.services

\* an id that is not registered has been deregistered from a name that has
\* another instance
C7_Witness ==
  \E p \in Procs :
    /\ Succeeded(p, "Deregister")
    /\ op[p].service.ID \notin IDs(View(prevFile, op[p].service.Name))
    /\ View(prevFile, op[p].service.Name) # << >>

\* C8: GetService of a name with nothing registered (never, or all
\* deregistered) returns nil and the empty sequence unless reading the file
\* failed on I/O.
C8_GetServiceUnknown ==
  \A p \in Procs :
    (Returning(p, "GetService") /\ live[op[p].service.Name] = << >> /\ err[p] # ErrReadIO) =>
      (err[p] = NoErr /\ result[p] = << >>)

\* GetService of a name with nothing registered is returning while another
\* name has an instance
C8_Witness ==
  \E p \in Procs :
    /\ Succeeded(p, "GetService")
    /\ live[op[p].service.Name] = << >>
    /\ \E other \in Names : live[other] # << >>

\* C9: New on the file an earlier Registry left does not change the file, and
\* GetService through the new Registry returns what had been registered and
\* not deregistered, every field as it was passed to Register.
C9_PersistenceRoundTrip ==
  exitFile.exists =>
    /\ file = exitFile
    /\ \A p \in Procs :
         Succeeded(p, "GetService") => result[p] = live[op[p].service.Name]

\* after a restart GetService is returning an instance the earlier Registry
\* registered
C9_Witness ==
  \E p \in Procs :
    /\ exitFile.exists
    /\ Succeeded(p, "GetService")
    /\ result[p] # << >>

\* C10: the file at filePath, once there, always holds one whole document, and
\* every step, a crash included, leaves it as it is or replaces it by the whole
\* document being saved.
C10_AtomicRewrite ==
  /\ [](file.exists => Complete(file))
  /\ [][file' # file =>
          \E t \in Threads :
            /\ pc[t] = "rename"
            /\ file' = [exists |-> TRUE, doc |-> MarshalIndent(data[t]), written |-> Chunks]]_vars

\* the process died while the temporary file was half written over an existing
\* registry file
C10_Witness ==
  /\ exitFile.exists
  /\ reg = "none"
  /\ tmp.exists /\ tmp.written > 0 /\ tmp.written < Chunks
  /\ tmp.doc # file.doc

\* C11: a Register or Deregister whose save failed returns an error and the
\* file at filePath is what it was when the call took the lock; a call returns
\* nil only when the document it built is the file at filePath.
C11_FailedPersist ==
  \A p \in Procs :
    \A kind \in {"Register", "Deregister"} :
      Returning(p, kind) =>
        /\ err[p] = ErrWriteIO => file = before[p]
        /\ err[p] = NoErr =>
             file = [exists |-> TRUE, doc |-> MarshalIndent(data[p]), written |-> Chunks]

\* the rename of a Register has failed: the whole new document is in the
\* temporary file and the registry file holds another one
C11_Witness ==
  \E p \in Procs :
    /\ Returning(p, "Register")
    /\ err[p] = ErrWriteIO
    /\ tmp = [exists |-> TRUE, doc |-> MarshalIndent(data[p]), written |-> Chunks]
    /\ file.doc # tmp.doc

\* C12: Register(ctx, nil) returns "service cannot be nil" without ever
\* holding or waiting for the lock, and neither its invocation nor its return
\* changes the registry file, the temporary file or the lock.
C12_RegisterNil ==
  /\ [](\A p \in Procs :
          op[p].isNil =>
            /\ pc[p] = "ret"
            /\ err[p] = ErrNilService
            /\ mu.writer # p /\ p \notin mu.readers)
  /\ [][\A p \in Procs :
          (op[p].isNil \/ op'[p].isNil) /\ pc'[p] # pc[p] /\ reg' = "ready" =>
            file' = file /\ tmp' = tmp /\ mu' = mu]_vars

\* Register(ctx, nil) is returning while another caller holds the lock and is
\* writing the temporary file
C12_Witness ==
  \E p, q \in Procs :
    /\ pc[p] = "ret" /\ op[p].isNil
    /\ mu.writer = q /\ pc[q] = "wwrite"

\* C13: a Next invoked after a Stop has returned never reaches the select, so
\* it does not block, and returns the "watcher stopped" error with a nil
\* result whatever is buffered; a stopped Watcher stays stopped, its context
\* cancelled and its channels closed.
C13_StoppedIsTerminal ==
  /\ [](\A c \in Clients :
          chist[c].afterStop =>
            /\ client[c].pc \in {"next", "next_ret"}
            /\ client[c].pc = "next_ret" =>
                 client[c].err = ErrWatcherStopped /\ client[c].result = NilSlice)
  /\ [](\A w \in Watchers :
          whist[w].stopReturned =>
            /\ watchers[w].stopped /\ watchers[w].done
            /\ watchers[w].ch.closed /\ watchers[w].errorCh.closed)
  /\ [][\A w \in Watchers : watchers[w].stopped => watchers'[w].stopped]_vars

\* a Next invoked after Stop returned is returning the error while a snapshot
\* and an error are still buffered
C13_Witness ==
  \E c \in Clients :
    /\ chist[c].afterStop
    /\ client[c].pc = "next_ret"
    /\ watchers[client[c].w].ch.buf # << >>
    /\ watchers[client[c].w].errorCh.buf # << >>

\* C14: however many Stops run on a Watcher, one after the other or at once,
\* the transition (stopped set, cancel, close of the two channels) runs at most
\* once and has run when a Stop returns, no close finds its channel closed, and
\* every Stop returns nil.
C14_StopOnce ==
  /\ panicked # "close of closed channel"
  /\ \A w \in Watchers : whist[w].transitions <= 1
  /\ \A c \in Clients :
       client[c].pc = "stop_ret" =>
         /\ client[c].err = NoErr
         /\ whist[client[c].w].transitions = 1
         /\ watchers[client[c].w].stopped /\ watchers[client[c].w].done
         /\ watchers[client[c].w].ch.closed /\ watchers[client[c].w].errorCh.closed

\* after a Stop has returned, a second Stop is returning while a third one,
\* invoked meanwhile, waits for w.mu
C14_Witness ==
  \E c, d \in Clients :
    /\ client[c].pc = "stop_ret"
    /\ client[d].pc = "stop" /\ client[d].w = client[c].w
    /\ whist[client[c].w].stopReturned

\* C15: a Next that was blocked with nothing buffered when Stop set w.stopped
\* returns the "watcher stopped" error and a nil result, and the process does
\* not panic before it has returned.
C15_BlockedNextStopped ==
  \A c \in Clients :
    chist[c].blocked =>
      /\ panicked = ""
      /\ client[c].pc = "next_ret" =>
           client[c].err = ErrWatcherStopped /\ client[c].result = NilSlice

\* a Next that was blocked with nothing buffered when Stop set w.stopped is
\* returning a snapshot and no error after that Stop has returned
C15_Witness ==
  \E c \in Clients :
    /\ chist[c].blocked
    /\ client[c].pc = "next_ret"
    /\ client[c].err = NoErr
    /\ whist[client[c].w].stopReturned

\* C16: a Next invoked after the context passed to Watch has been cancelled
\* does not reach the select, so it does not block, and returns the "watcher
\* stopped" error with a nil result, as after a Stop.
C16_ContextCancelStops ==
  \A c \in Clients :
    chist[c].afterCancel =>
      /\ client[c].pc \in {"next", "next_ret"}
      /\ client[c].pc = "next_ret" =>
           client[c].err = ErrWatcherStopped /\ client[c].result = NilSlice

\* a Next invoked after the context passed to Watch was cancelled is returning
\* a snapshot that watch() fetched after the cancellation
C16_Witness ==
  \E c \in Clients :
    /\ chist[c].afterCancel
    /\ client[c].pc = "next_ret"
    /\ client[c].err = NoErr
    /\ client[c].result.list # << >>
    /\ whist[client[c].w].atWatch = << >>

\* C17: when the name has not been mutated since Watch, the first Next returns
\* nil and exactly the instances the name held when Watch returned, the empty
\* slice when there were none; it returns an error only when a GetService of
\* watch() has failed on I/O or a Stop has been invoked.
C17_FirstNext ==
  \A c \in Clients :
    LET w == client[c].w IN
    chist[c].first /\ client[c].pc = "next_ret" /\ ~whist[w].mutated =>
      \/ client[c].err = NoErr /\ client[c].result = Slice(whist[w].atWatch)
      \/ client[c].err = ErrReadIO /\ whist[w].readFailed
      \/ client[c].err = ErrWatcherStopped /\ whist[w].stopCalled

\* the first Next is returning the instance registered before Watch, which
\* watch() fetched at a tick after its first GetService had failed
C17_Witness ==
  \E c \in Clients :
    LET w == client[c].w IN
    /\ chist[c].first /\ client[c].pc = "next_ret" /\ ~whist[w].mutated
    /\ client[c].err = NoErr
    /\ client[c].result.list # << >>
    /\ whist[w].readFailed

\* C18: a Next that returns nil returns a set that holds every id that was
\* registered when the Next was invoked and has not been deregistered since.
C18_NextSeesRegister ==
  \A c \in Clients :
    client[c].pc = "next_ret" /\ client[c].err = NoErr =>
      chist[c].must \subseteq {client[c].result.list[i].ID : i \in 1..Len(client[c].result.list)}

\* a Next that is not the first, invoked after the Register of an instance, is
\* returning nil and the empty slice
C18_Witness ==
  \E c \in Clients :
    /\ ~chist[c].first
    /\ client[c].pc = "next_ret" /\ client[c].err = NoErr
    /\ chist[c].must # {}
    /\ client[c].result.list = << >>

\* a Next on Watcher w is returning nil and the instances the name holds now
ReturnsCurrent(w) ==
  \E c \in Consumers :
    /\ client[c].pc = "next_ret" /\ client[c].w = w
    /\ client[c].err = NoErr
    /\ client[c].result = Slice(View(file, watchers[w].serviceName))

\* C19: as long as no Stop is invoked on a Watcher, again and again a Next
\* returns nil and the instances its name holds at that time: so after the
\* last Register or Deregister of a run, and the last failed read, a Next
\* returns the set that mutation left.
C19_EventualVisibility ==
  \A w \in Watchers :
    []<>(~watchers[w].made \/ whist[w].stopCalled \/ ReturnsCurrent(w))

\* a Next that is not the first is returning the instance registered after
\* Watch, and the budget of mutations is used up
C19_Witness ==
  \E w \in Watchers :
    /\ ReturnsCurrent(w)
    /\ whist[w].mutated /\ ~whist[w].stopCalled
    /\ View(file, watchers[w].serviceName) # whist[w].atWatch
    /\ events = MaxEvents
    /\ \E c \in Consumers : client[c].w = w /\ ~chist[c].first

\* C20: the snapshot a Next returns is the one the latest successful
\* GetService of watch() fetched, also when an earlier one was left in w.ch
\* over one or more ticks.
C20_LatestSnapshot ==
  \A c \in Clients :
    client[c].pc = "next_ret" /\ client[c].err = NoErr => chist[c].latest

\* a Next is returning the empty slice that was left in w.ch while watch()
\* waits to send the two instances it fetched at a later tick
C20_Witness ==
  \E c \in Clients :
    LET w == client[c].w IN
    /\ client[c].pc = "next_ret" /\ client[c].err = NoErr
    /\ client[c].result.list = << >>
    /\ poller[w].pc = "send" /\ Len(poller[w].instances) = 2

\* C22: on a Watcher that no Stop has been invoked on, every error a
\* GetService of watch() has returned, the first one included, has been
\* received by a Next, or is in w.errorCh, or is the one watch() is about to
\* send: none is dropped.
C22_NoPollErrorDropped ==
  \A w \in Watchers :
    ~whist[w].stopCalled =>
      whist[w].pollErrors =
        whist[w].nextErrors + Len(watchers[w].errorCh.buf)
          + (IF poller[w].pc \in {"check_err", "send_err"} THEN 1 ELSE 0)

\* the first GetService of watch() has failed, watch() is in its loop holding
\* no error, and the consumer is blocked in Next with nothing buffered
C22_Witness ==
  \E w \in Watchers :
    /\ whist[w].pollErrors = 1 /\ whist[w].nextErrors = 0
    /\ poller[w].pc = "loop" /\ poller[w].err = NoErr
    /\ Blocked(w) # {}

\* C26: a GetService that returns nil returns the instances of the name in
\* the last snapshot a New, Register or Deregister has renamed into place,
\* which is the whole file at filePath; no writer holds the lock meanwhile.
C26_CompleteSnapshot ==
  \A p \in Procs :
    Succeeded(p, "GetService") =>
      /\ Complete(file)
      /\ result[p] = View(file, op[p].service.Name)
      /\ result[p] = live[op[p].service.Name]
      /\ mu.writer = 0

\* GetService is returning the persisted instances of the name while the
\* temporary file holds the whole document of a Register whose rename
\* failed, with other instances for the name
C26_Witness ==
  \E p \in Procs :
    /\ Succeeded(p, "GetService")
    /\ Complete(tmp)
    /\ View(tmp, op[p].service.Name) # result[p]

\* the errors of a load that failed
ReadErrors == {ErrReadIO, ErrReadNotExist, ErrReadJSON}

\* C28: a Register, Deregister or GetService whose load of the snapshot
\* failed goes straight to its return with the error and no result: it does
\* not read again and does not modify or write, and neither the failing load
\* nor the return changes the registry file or the temporary file.
C28_LoadFails ==
  /\ [](\A p \in Procs :
          err[p] \in ReadErrors => pc[p] = "ret" /\ result[p] = << >>)
  /\ [][\A p \in Procs :
          (err'[p] \in ReadErrors \/ err[p] \in ReadErrors)
            /\ pc'[p] # pc[p] /\ reg' = "ready" =>
              file' = file /\ tmp' = tmp]_vars

\* the load of a Deregister has failed while the name holds an instance
C28_Witness ==
  \E p \in Procs :
    /\ Returning(p, "Deregister")
    /\ err[p] = ErrReadIO
    /\ live[op[p].service.Name] # << >>

\* C27: once Stop has returned, watch() ends by returning: it does not end in
\* a panic, and from then on it changes neither what it holds nor the two
\* channels of its Watcher.
C27_PollerTerminates ==
  /\ [](\A w \in Watchers : whist[w].stopReturned => panicked = "")
  /\ [][\A w \in Watchers :
          whist[w].stopReturned /\ poller[w].pc = "exit" =>
            /\ poller'[w] = poller[w]
            /\ watchers'[w].ch = watchers[w].ch
            /\ watchers'[w].errorCh = watchers[w].errorCh]_vars

\* Stop has returned while watch() was blocked handing over its first item
\* to a full w.ch, and watch() has returned
C27_Witness ==
  \E w \in Watchers :
    /\ whist[w].stopReturned
    /\ poller[w].pc = "exit"
    /\ watchers[w].ch.buf # << >>
    /\ panicked = ""

(* ------------- registry calls and a Watcher on one r.mu --------------- *)

\* the goroutine that calls Watch for Watcher w, and the goroutine of its watch()
WatchThread(w) == 10 + w
PollerThread(w) == 20 + w

\* Watch: r.mu.Lock(), waiting for the writer and the readers to leave
WatchLock(w) ==
  /\ panicked = "" /\ ~watchers[w].made
  /\ mu.writer = 0 /\ mu.readers = {}
  /\ mu' = [mu EXCEPT !.writer = WatchThread(w)]
  /\ UNCHANGED <<file, tmp, now, reg, pc, op, data, instance, err, result, events,
                 prevFile, live, exitFile, regInv, regDone, deregInv, concurrent,
                 before, wvars>>

\* Watch: NewWatcher, r.watchers[serviceName] = watcher, the deferred Unlock
WatchCreate(w, serviceName) ==
  /\ panicked = "" /\ mu.writer = WatchThread(w)
  /\ watchers' = [watchers EXCEPT ![w] = [NoWatcher EXCEPT !.made = TRUE,
                                                           !.serviceName = serviceName]]
  /\ poller' = [poller EXCEPT ![w] = [NoPoller EXCEPT !.pc = "start"]]
  /\ whist' = [whist EXCEPT ![w] =
                 [NoHistory EXCEPT !.atWatch = GetServiceResult(Unmarshal(file.doc), serviceName)]]
  /\ mu' = [mu EXCEPT !.writer = 0]
  /\ UNCHANGED <<file, tmp, now, reg, pc, op, data, instance, err, result, events,
                 prevFile, live, exitFile, regInv, regDone, deregInv, concurrent,
                 before, client, panicked, chist>>

\* watch(): GetService takes r.mu.RLock(), waiting for the writer to leave
PollRLock(w) ==
  /\ panicked = "" /\ poller[w].pc \in {"start", "get"}
  /\ PollerThread(w) \notin mu.readers
  /\ mu.writer = 0
  /\ mu' = [mu EXCEPT !.readers = @ \cup {PollerThread(w)}]
  /\ UNCHANGED <<file, tmp, now, reg, pc, op, data, instance, err, result, events,
                 prevFile, live, exitFile, regInv, regDone, deregInv, concurrent,
                 before, wvars>>

\* watch(): GetService reads the file, builds its result and runs RUnlock
PollRead(w) ==
  LET instances == GetServiceResult(Unmarshal(file.doc), watchers[w].serviceName) IN
  /\ panicked = "" /\ PollerThread(w) \in mu.readers
  /\ poller' = [poller EXCEPT ![w].pc = "check", ![w].instances = instances]
  /\ whist' = [whist EXCEPT ![w].lastFetch = Slice(instances)]
  /\ mu' = [mu EXCEPT !.readers = @ \ {PollerThread(w)}]
  /\ UNCHANGED <<file, tmp, now, reg, pc, op, data, instance, err, result, events,
                 prevFile, live, exitFile, regInv, regDone, deregInv, concurrent,
                 before, watchers, client, panicked, chist>>

\* the goroutine that calls the Registry next to the Watcher
Callers == {1}

\* a step of a Register, Deregister or GetService call of the running process
RegistryStep ==
  /\ panicked = ""
  /\ \E p \in Callers :
       \/ CallRegister(p)
       \/ CallDeregister(p)
       \/ CallGetService(p)
       \/ Lock(p)
       \/ RLock(p)
       \/ ReadRegistryFile(p)
       \/ RegisterModify(p)
       \/ DeregisterModify(p)
       \/ WriteFileOpen(p)
       \/ WriteFileWrite(p)
       \/ Rename(p)
       \/ Return(p)

\* a step of the Watcher whose consumer never calls Next, and of its Stop
WatcherStep ==
  \/ \E w \in Watchers :
       \/ WatchLock(w)
       \/ \E serviceName \in Names : WatchCreate(w, serviceName)
       \/ PollRLock(w)
       \/ PollRead(w)
       \/ WatchCheck(w)
       \/ WatchSend(w)
       \/ WatchDone(w)
       \/ WatchTick(w)
       \/ WatchTickCheck(w)
  \/ \E c \in Consumers :
       \/ \E w \in Watchers : CallStop(c, w)
       \/ StopLock(c)
       \/ StopCancel(c)
       \/ StopCloseCh(c)
       \/ StopCloseErrorCh(c)
       \/ StopReturn(c)

NextLock == RegistryStep \/ WatcherStep

SpecLock == InitW /\ [][NextLock]_vars

(* -------- a Running Watcher, a readable file, two callers of Next ------ *)

\* the instance that is registered and deregistered while the two callers run
LevelInstances == {service \in WatchedInstances : service.ID = "1" /\ service.Version = "v1"}

\* the Watcher is never stopped and no read fails; two goroutines call Next
NextLevel ==
  \/ \E w \in Watchers :
       \/ Watch(w, "svc")
       \/ WatchGetService(w)
       \/ WatchCheck(w)
       \/ WatchSend(w)
       \/ WatchTick(w)
       \/ WatchTickCheck(w)
  \/ \E service \in LevelInstances : Register(service)
  \/ \E service \in LevelInstances : Deregister(service)
  \/ \E c \in Clients :
       \/ \E w \in Watchers : CallNext(c, w)
       \/ NextCheck(c)
       \/ NextInstances(c)
       \/ NextReturn(c)

\* the Go runtime schedules watch() and the callers of Next, the ticker
\* fires every second, and the receivers blocked on w.ch are served in the
\* order of their arrival: a waiting receiver is not passed over forever
SpecLevel ==
  /\ InitW /\ [][NextLevel]_vars
  /\ \A w \in Watchers :
       /\ WF_vars(WatchGetService(w))
       /\ WF_vars(WatchCheck(w))
       /\ WF_vars(WatchSend(w))
       /\ WF_vars(WatchTick(w))
       /\ WF_vars(WatchTickCheck(w))
  /\ \A c \in Clients :
       /\ WF_vars(NextCheck(c))
       /\ SF_vars(NextInstances(c))
       /\ WF_vars(NextReturn(c))

(* ----------------- two Watchers on one Registry ------------------------ *)

\* Watcher 1 is stopped by one goroutine and its items are never taken;
\* another goroutine calls Next on Watcher 2
NextTwo ==
  \/ \E w \in BothWatchers :
       \/ \E serviceName \in Names : Watch(w, serviceName)
       \/ WatchGetService(w)
       \/ WatchCheck(w)
       \/ WatchSend(w)
       \/ WatchDone(w)
       \/ WatchTick(w)
       \/ WatchTickCheck(w)
  \/ \E service \in LevelInstances : Register(service)
  \/ \E service \in LevelInstances : Deregister(service)
  \/ CallStop(1, 1)
  \/ StopLock(1)
  \/ StopCancel(1)
  \/ StopCloseCh(1)
  \/ StopCloseErrorCh(1)
  \/ StopReturn(1)
  \/ CallNext(2, 2)
  \/ NextCheck(2)
  \/ NextInstances(2)
  \/ NextReturn(2)

SpecTwo == InitW /\ [][NextTwo]_vars

(* ------------- Register and GetService on chosen instances ------------ *)

\* instances with and without an id, listing an endpoint once or twice
StoredInstances ==
  { [ID |-> i, Name |-> "svc", Version |-> "v1", Metadata |-> "nil", Endpoints |-> e] :
      i \in {"", "1"},
      e \in { <<"http://a">>, <<"http://a", "http://a">>, <<"http://a", "http://b">> } }

\* a whole Register call on a readable file: lock, read, modify, write
RegisterWhole(p, service) ==
  /\ pc[p] = "idle" /\ events < MaxEvents
  /\ events' = events + 1
  /\ file' = [file EXCEPT !.doc = MarshalIndent(
                 RegisterUpdate(Unmarshal(file.doc), service, NewInstance(service, now), now))]
  /\ op' = [op EXCEPT ![p] = [kind |-> "Register", service |-> service, isNil |-> FALSE]]
  /\ pc' = [pc EXCEPT ![p] = "ret"]
  /\ UNCHANGED <<tmp, now, reg, mu, data, instance, err, result, prevFile, live,
                 exitFile, regInv, regDone, deregInv, concurrent, before, wvars>>

\* a whole GetService call on a readable file: lock, read, convert
GetServiceWhole(p, serviceName) ==
  /\ pc[p] = "idle" /\ events < MaxEvents
  /\ events' = events + 1
  /\ op' = [op EXCEPT ![p] = [kind |-> "GetService",
                                service |-> [NoService EXCEPT !.Name = serviceName],
                                isNil |-> FALSE]]
  /\ result' = [result EXCEPT ![p] = GetServiceResult(Unmarshal(file.doc), serviceName)]
  /\ pc' = [pc EXCEPT ![p] = "ret"]
  /\ UNCHANGED <<file, tmp, now, reg, mu, data, instance, err, prevFile, live,
                 exitFile, regInv, regDone, deregInv, concurrent, before, wvars>>

NextStore ==
  \E p \in Procs :
    \/ \E service \in StoredInstances : RegisterWhole(p, service)
    \/ \E serviceName \in Names : GetServiceWhole(p, serviceName)
    \/ Return(p)

SpecStore == InitW /\ [][NextStore]_vars

\* the instances of the snapshot in the file, of all names
Stored ==
  LET d == Unmarshal(file.doc) IN
  UNION { { d.Services[n][i] : i \in 1..Len(d.Services[n]) } : n \in DOMAIN d.Services }

\* C24: a Register, Deregister or GetService call that has been invoked is
\* never left unfinished by what a Watcher does: while a call is in progress
\* the process has not been ended by a panic of watch().
C24_RegistryCallsComplete ==
  \A p \in Callers : pc[p] # "idle" => panicked = ""

\* a Register returns nil while watch() is blocked handing over an item to
\* the full w.ch of a Watcher whose consumer never calls Next
C24_Witness ==
  \E p \in Callers, w \in Watchers :
    /\ Succeeded(p, "Register")
    /\ poller[w].pc = "send"
    /\ watchers[w].ch.buf # << >>
    /\ ~watchers[w].stopped

\* C25: a step in which a Watcher is created, watch() or its GetService
\* moves, or a call of Next or Stop moves, leaves the registry file and the
\* temporary file as they are; they change only in a Register or Deregister.
C25_WatcherReadOnly ==
  [][file' # file \/ tmp' # tmp =>
       /\ watchers' = watchers
       /\ poller' = poller
       /\ client' = client
       /\ panicked' = panicked
       /\ events' = events + 1]_vars

\* Watch, polls, a Next that returned a snapshot and a Stop have happened
\* and the registry file is as New left it
C25_Witness ==
  \E w \in Watchers :
    /\ whist[w].nextCalled
    /\ ~whist[w].lastFetch.nil
    /\ whist[w].stopReturned
    /\ poller[w].pc = "exit"
    /\ file = [exists |-> TRUE, doc |-> MarshalIndent(InitialData(1)), written |-> Chunks]

\* C29: once a Register of an instance with an empty id has returned nil, a
\* GetService of its name returns an instance whose id is the name.
C29_DefaultID ==
  \A p \in Procs :
    LET name == op[p].service.Name IN
    Succeeded(p, "GetService") /\ <<name, "">> \in regDone =>
      \E i \in 1..Len(result[p]) : result[p][i].ID = name

\* a GetService returns an instance with an empty id after a Register of an
\* instance with an empty id
C29_Witness ==
  \E p \in Procs :
    /\ Succeeded(p, "GetService")
    /\ <<op[p].service.Name, "">> \in regDone
    /\ \E i \in 1..Len(result[p]) : result[p][i].ID = ""

\* C30: no stored instance lists an endpoint twice.
C30_EndpointsOnce ==
  \A inst \in Stored :
    \A i, j \in 1..Len(inst.Endpoints) :
      i # j => inst.Endpoints[i] # inst.Endpoints[j]

\* a Register of an instance that lists an endpoint twice has returned nil
\* and the instance is stored
C30_Witness ==
  \E p \in Procs :
    /\ Succeeded(p, "Register")
    /\ op[p].service.Endpoints = <<"http://a", "http://a">>
    /\ \E inst \in Stored : inst.ID = op[p].service.ID

\* C21: on a Watcher that is not stopped, with a file that can be read,
\* every Next that has been invoked returns nil with a snapshot, also when
\* the instances never change and two goroutines are in Next together.
C21_LevelTriggered ==
  \A c \in Clients :
    client[c].pc \in {"next", "select"} ~>
      /\ client[c].pc = "next_ret"
      /\ client[c].err = NoErr
      /\ ~client[c].result.nil

\* two callers of Next both return a snapshot of a name that has never been
\* registered nor deregistered
C21_Witness ==
  /\ events = 0
  /\ \A c \in Clients :
       /\ client[c].pc = "next_ret"
       /\ client[c].err = NoErr
       /\ ~client[c].result.nil

\* C23: a step of one Watcher (of its watch(), of its Stop, of a Next on it)
\* leaves the other Watcher, its channels and its watch() as they are, and
\* a Watcher on which Stop was never called goes on while another one is
\* stopped: the process has not been ended by a panic.
C23_WatchersIndependent ==
  /\ [][\A w, v \in BothWatchers :
          w # v /\ (watchers'[w] # watchers[w] \/ poller'[w] # poller[w]) =>
            watchers'[v] = watchers[v] /\ poller'[v] = poller[v]]_vars
  /\ [](\A w, v \in BothWatchers :
          whist[w].stopCalled /\ watchers[v].made /\ ~whist[v].stopCalled =>
            panicked = "")

\* Watcher 1 is stopped with its first item never taken, its watch() has
\* returned, and a Next on Watcher 2 is returning a snapshot
C23_Witness ==
  /\ whist[1].stopReturned
  /\ poller[1].pc = "exit"
  /\ watchers[1].ch.buf # << >>
  /\ client[2].pc = "next_ret"
  /\ client[2].w = 2
  /\ client[2].err = NoErr
  /\ ~client[2].result.nil
  /\ panicked = ""

\* C33: watch() never sends on a channel that Stop has closed: whatever the
\* interleaving of Stop with watch(), the process does not panic with
\* "send on closed channel".
C33_NoSendOnClosed == panicked # "send on closed channel"

\* watch() passed its stopped check before Stop ran and is now at its select
\* with the channel it sends on closed and the context cancelled
C33_Witness ==
  \E w \in Watchers :
    /\ poller[w].pc = "send"
    /\ watchers[w].ch.closed
    /\ watchers[w].done
    /\ panicked = ""

\* the (name, id, timestamp) of the instances of a document
Stamps(doc) ==
  UNION { { <<n, doc.services[n][i].id, doc.services[n][i].timestamp>> :
              i \in 1..Len(doc.services[n]) } : n \in DOMAIN doc.services }

\* the same, without the instance (name, id)
OtherStamps(doc, name, id) == {x \in Stamps(doc) : x[1] # name \/ x[2] # id}

\* C31: when Register(name, id) returns nil the timestamp of the stored
\* instance is a reading of the registry's clock taken in that call: it is
\* not before the last write of the snapshot nor before the timestamp the
\* instance had, and not after the clock now; a Register or Deregister that
\* returns nil leaves the timestamp of every other instance as it was.
C31_Timestamps ==
  \A p \in Procs :
    LET name == op[p].service.Name
        id == op[p].service.ID
    IN
    /\ Succeeded(p, "Register") =>
         \E x \in Stamps(file.doc) :
           /\ x[1] = name /\ x[2] = id
           /\ x[3] \in Times
           /\ x[3] >= prevFile.doc.updated
           /\ x[3] <= now
           /\ \A y \in Stamps(prevFile.doc) : y[1] = name /\ y[2] = id => x[3] >= y[3]
    /\ Succeeded(p, "Register") \/ Succeeded(p, "Deregister") =>
         OtherStamps(file.doc, name, id) = OtherStamps(prevFile.doc, name, id)

\* an instance is registered again after the clock has advanced, next to
\* another instance of the name: its timestamp is later than it was
C31_Witness ==
  \E p \in Procs :
    /\ Succeeded(p, "Register")
    /\ OtherStamps(file.doc, op[p].service.Name, op[p].service.ID) # {}
    /\ \E x \in Stamps(file.doc), y \in Stamps(prevFile.doc) :
         /\ x[1] = op[p].service.Name /\ x[2] = op[p].service.ID
         /\ y[1] = x[1] /\ y[2] = x[2]
         /\ x[3] > y[3]

\* the instances of a sequence whose id is not id, in their order
RECURSIVE Without(_, _)
Without(services, id) ==
  IF services = << >> THEN << >>
  ELSE IF Head(services).ID = id THEN Without(Tail(services), id)
  ELSE <<Head(services)>> \o Without(Tail(services), id)

\* C36: when Register or Deregister of (name, id) returns nil, every other
\* name has the sequence it had, and the instances of the name with another
\* id are those it had, with all their fields, in the same order; a Register
\* leaves an instance it replaces at its position and puts a new one last.
C36_Frame ==
  \A p \in Procs :
    LET name == op[p].service.Name
        id == op[p].service.ID
        old == Unmarshal(prevFile.doc).Services
        new == Unmarshal(file.doc).Services
        was == FindID(MapGet(old, name), id, 1)
    IN
    /\ Succeeded(p, "Register") \/ Succeeded(p, "Deregister") =>
         /\ \A n \in Names \ {name} : MapGet(new, n) = MapGet(old, n)
         /\ (DOMAIN new) \ {name} = (DOMAIN old) \ {name}
         /\ Without(MapGet(new, name), id) = Without(MapGet(old, name), id)
    /\ Succeeded(p, "Register") =>
         /\ Len(MapGet(new, name)) = IF was > 0 THEN Len(MapGet(old, name))
                                                ELSE Len(MapGet(old, name)) + 1
         /\ FindID(MapGet(new, name), id, 1) = IF was > 0 THEN was ELSE Len(MapGet(new, name))

\* the first of two instances of a name has been deregistered, or a second
\* instance has been registered after the first
C36_Witness ==
  \E p \in Procs :
    LET old == MapGet(Unmarshal(prevFile.doc).Services, op[p].service.Name)
        new == MapGet(Unmarshal(file.doc).Services, op[p].service.Name)
    IN
    \/ /\ Succeeded(p, "Deregister")
       /\ Len(old) = 2 /\ Len(new) = 1
       /\ old[1].ID = op[p].service.ID
    \/ /\ Succeeded(p, "Register")
       /\ Len(old) = 1 /\ Len(new) = 2
       /\ new[2].ID = op[p].service.ID

\* C37: no name of the persisted snapshot, and of the data a call is about
\* to write, has an empty sequence of instances.
C37_NoEmptySequence ==
  /\ Complete(file) =>
       \A n \in DOMAIN file.doc.services : Len(file.doc.services[n]) > 0
  /\ \A p \in Procs :
       pc[p] \in {"wopen", "wwrite", "rename"} =>
         \A n \in DOMAIN data[p].Services : Len(data[p].Services[n]) > 0

\* the only instance of a name has been deregistered and the name is no
\* longer a key of the services map
C37_Witness ==
  \E p \in Procs :
    /\ Succeeded(p, "Deregister")
    /\ Len(MapGet(Unmarshal(prevFile.doc).Services, op[p].service.Name)) = 1
    /\ op[p].service.Name \notin DOMAIN file.doc.services

(* ------------------------- Deregister(ctx, nil) ------------------------ *)

\* Deregister(ctx, nil) is called: there is no test of the argument, the
\* call goes on to r.mu.Lock()
CallDeregisterNil(p) ==
  /\ reg = "ready" /\ pc[p] = "idle" /\ events < MaxEvents
  /\ op' = [op EXCEPT ![p] = [kind |-> "Deregister", service |-> NoService, isNil |-> TRUE]]
  /\ pc' = [pc EXCEPT ![p] = "lock"]
  /\ events' = events + 1
  /\ UNCHANGED <<file, tmp, now, reg, mu, data, instance, err, result, prevFile,
                 live, exitFile, regInv, regDone, deregInv, concurrent,
                 before, wvars>>

\* Deregister: data.Services[service.Name] with service == nil; the panic
\* is not recovered and ends the process
DeregisterNilDeref(p) ==
  /\ pc[p] = "modify" /\ op[p].kind = "Deregister" /\ op[p].isNil
  /\ panicked' = "nil pointer dereference"
  /\ UNCHANGED <<file, tmp, now, reg, mu, pc, op, data, instance, err, result, events,
                 prevFile, live, exitFile, regInv, regDone, deregInv, concurrent,
                 before, watchers, poller, client, whist, chist>>

\* the calls of two goroutines on a Registry, Deregister(ctx, nil) among them
NextNil ==
  \E p \in Procs :
    \/ panicked = "" /\ CallRegister(p)
    \/ panicked = "" /\ CallDeregister(p)
    \/ panicked = "" /\ CallDeregisterNil(p)
    \/ panicked = "" /\ CallGetService(p)
    \/ panicked = "" /\ Lock(p)
    \/ panicked = "" /\ RLock(p)
    \/ panicked = "" /\ ReadRegistryFile(p)
    \/ panicked = "" /\ ReadRegistryFileFails(p)
    \/ panicked = "" /\ RegisterModify(p)
    \/ panicked = "" /\ DeregisterModify(p)
    \/ panicked = "" /\ DeregisterNilDeref(p)
    \/ panicked = "" /\ WriteFileOpen(p)
    \/ panicked = "" /\ WriteFileWrite(p)
    \/ panicked = "" /\ Rename(p)
    \/ panicked = "" /\ Return(p)

SpecNil == InitW /\ [][NextNil]_vars

\* C35: Deregister(ctx, nil) does not panic, and when it returns it returns
\* an error with the registry file as it was when the call took the lock.
C35_DeregisterNil ==
  /\ panicked # "nil pointer dereference"
  /\ \A p \in Procs :
       pc[p] = "ret" /\ op[p].kind = "Deregister" /\ op[p].isNil =>
         err[p] # NoErr /\ file = before[p]

\* Deregister(ctx, nil) holds the lock and has loaded the snapshot, which
\* holds an instance
C35_Witness ==
  \E p \in Procs :
    /\ pc[p] = "modify" /\ op[p].kind = "Deregister" /\ op[p].isNil
    /\ mu.writer = p
    /\ DOMAIN data[p].Services # {}
    /\ panicked = ""

\* C39: a Next never takes an item from one of w.ch and w.errorCh while the
\* other one holds an item that watch() sent before it.
C39_ItemsInOrder == \A w \in Watchers : ~whist[w].reordered

\* a caller of Next is at its select with a snapshot in w.ch and, sent after
\* it, the error of a later poll in w.errorCh
C39_Witness ==
  \E c \in Consumers, w \in Watchers :
    /\ client[c].pc = "select" /\ client[c].w = w
    /\ watchers[w].ch.buf # << >>
    /\ watchers[w].errorCh.buf # << >>
    /\ whist[w].older = "ch"
    /\ ~watchers[w].stopped

\* C38: a GetService of watch() that fails changes nothing in the Watcher
\* and leaves watch() in its loop or about to send the error; a Next returns
\* the "watcher stopped" error only on a Watcher on which Stop was called;
\* and after a failed read, unless Stop is called, the consumer's Next
\* returns a snapshot again and again.
C38_ReadErrorKeepsRunning ==
  /\ [][\A w \in Watchers :
          whist'[w].pollErrors # whist[w].pollErrors =>
            /\ watchers'[w] = watchers[w]
            /\ poller'[w].pc \in {"loop", "check_err"}]_vars
  /\ [](\A c \in Clients :
          client[c].pc = "next_ret" /\ client[c].err = ErrWatcherStopped =>
            whist[client[c].w].stopCalled)
  /\ \A w \in Watchers :
       [](whist[w].readFailed =>
            <>(\/ whist[w].stopCalled
               \/ \E c \in Consumers :
                    /\ client[c].pc = "next_ret" /\ client[c].w = w
                    /\ client[c].err = NoErr /\ ~client[c].result.nil))

\* a Next has returned the error of a failed poll and a later Next returns
\* the snapshot of a poll after it, on a Watcher that was not stopped
C38_Witness ==
  \E c \in Consumers, w \in Watchers :
    /\ whist[w].nextErrors = 1
    /\ ~whist[w].reordered
    /\ ~whist[w].stopCalled
    /\ client[c].pc = "next_ret" /\ client[c].w = w
    /\ client[c].err = NoErr /\ ~client[c].result.nil

(* --------------- two Registry objects on one file path ----------------- *)

\* r.mu.Lock() of the caller's own Registry object: caller p is the only
\* user of Registry p, whose mutex no other object shares
LockOwn(p) ==
  /\ pc[p] = "lock"
  /\ pc' = [pc EXCEPT ![p] = "read"]
  /\ before' = [before EXCEPT ![p] = file]
  /\ UNCHANGED <<file, tmp, now, reg, mu, op, data, instance, err, result, events,
                 prevFile, live, exitFile, regInv, regDone, deregInv, concurrent, wvars>>

\* os.WriteFile(tempFile, jsonData, 0644), taken as one step: the temporary
\* file, whatever it held, now holds the whole document of this caller
WriteFileShared(p) ==
  /\ pc[p] = "wopen"
  /\ tmp' = [exists |-> TRUE, doc |-> MarshalIndent(data[p]), written |-> Chunks]
  /\ pc' = [pc EXCEPT ![p] = "rename"]
  /\ UNCHANGED <<file, now, reg, mu, op, data, instance, err, result, events, prevFile,
                 live, exitFile, regInv, regDone, deregInv, concurrent,
                 before, wvars>>

\* os.Rename(tempFile, filePath): it moves whatever the temporary file holds,
\* and fails when the other object's rename has taken the file away
RenameShared(p) ==
  /\ pc[p] = "rename"
  /\ IF tmp.exists
     THEN /\ file' = tmp
          /\ tmp' = NoFile
          /\ prevFile' = file
          /\ UNCHANGED err
     ELSE /\ err' = [err EXCEPT ![p] = ErrWriteIO]
          /\ UNCHANGED <<file, tmp, prevFile>>
  /\ pc' = [pc EXCEPT ![p] = "ret"]
  /\ UNCHANGED <<now, reg, mu, op, data, instance, result, events, live, exitFile,
                 regInv, regDone, deregInv, concurrent, before, wvars>>

\* goroutine 1 calls Register on one Registry object and goroutine 2 on
\* another one made by New on the same path
NextShared ==
  \E p \in Procs :
    \/ CallRegister(p)
    \/ LockOwn(p)
    \/ ReadRegistryFile(p)
    \/ RegisterModify(p)
    \/ WriteFileShared(p)
    \/ RenameShared(p)
    \/ Return(p)

SpecShared == InitW /\ [][NextShared]_vars

\* C34: with two Registry objects on one path, every (name, id) whose
\* Register has returned nil is in the persisted snapshot, and the temporary
\* file a save is about to rename holds the document of that save.
C34_SharedPath ==
  /\ \A x \in regDone : \E y \in Stamps(file.doc) : y[1] = x[1] /\ y[2] = x[2]
  /\ \A p \in Procs :
       pc[p] = "rename" =>
         tmp = [exists |-> TRUE, doc |-> MarshalIndent(data[p]), written |-> Chunks]

\* the two objects' Register calls for different ids of one name have both
\* loaded the same snapshot and neither has renamed yet
C34_Witness ==
  /\ \A p \in Procs :
       /\ op[p].kind = "Register"
       /\ pc[p] \in {"modify", "wopen", "rename"}
       /\ before[p] = file
  /\ op[1].service.Name = op[2].service.Name
  /\ op[1].service.ID # op[2].service.ID

(***************************************************************************)
(* The registry factory of contrib/registry/factory.go.  CreateRegistry    *)
(* tests the configuration and, for the type "local", calls local.New with *)
(* the configured path: the steps of New are the ones above.  A config is  *)
(* a pointer to a Registry message with a pointer to its Local section;    *)
(* the sections of the other back ends are left out, so the types drawn    *)
(* are "local", the empty type and a type the factory does not know.       *)
(***************************************************************************)

NilLocal == [isNil |-> TRUE, FilePath |-> ""]
NilConfig == [isNil |-> TRUE, Type |-> "", Local |-> NilLocal]

FilePaths == {"", "./registry.json", "data/registry.json"}
RegistryTypes == {"local", "", "redis"}
LocalSections == {NilLocal} \cup {[isNil |-> FALSE, FilePath |-> f] : f \in FilePaths}
Configs ==
  {NilConfig} \cup
  {[isNil |-> FALSE, Type |-> t, Local |-> l] : t \in RegistryTypes, l \in LocalSections}

ErrNilConfig == "registry config cannot be nil"
ErrNilLocal == "local registry config cannot be nil"
ErrEmptyPath == "local registry file path cannot be empty"
ErrEmptyType == "registry type cannot be empty"
ErrNilLocalSection == "local registry config cannot be nil when type is local"
ErrUnsupported(type) == "unsupported registry type: " \o type
ErrCreate(e) == "failed to create local registry: " \o e

\* createLocalRegistry without the test of the file path
createLocalRegistryAnyPath(config) ==
  IF config.isNil THEN ErrNilLocal ELSE NoErr

\* the tests of createLocalRegistry that come before local.New: the error
\* returned, or nil when local.New(config.FilePath) is called
createLocalRegistry(config) ==
  IF config.isNil THEN ErrNilLocal
  ELSE IF config.FilePath = "" THEN ErrEmptyPath
  ELSE NoErr

\* the tests of CreateRegistry and the switch on config.Type
CreateRegistryError(config) ==
  IF config.isNil THEN ErrNilConfig
  ELSE IF config.Type = "local" THEN createLocalRegistry(config.Local)
  ELSE ErrUnsupported(config.Type)

ValidateConfig(config) ==
  IF config.isNil THEN ErrNilConfig
  ELSE IF config.Type = "" THEN ErrEmptyType
  ELSE IF config.Type = "local"
       THEN IF config.Local.isNil THEN ErrNilLocalSection
            ELSE IF config.Local.FilePath = "" THEN ErrEmptyPath
            ELSE NoErr
  ELSE ErrUnsupported(config.Type)

GetDefaultConfig ==
  [isNil |-> FALSE, Type |-> "local",
   Local |-> [isNil |-> FALSE, FilePath |-> "./registry.json"]]

\* the process has started and has not called the factory yet
InitFactory ==
  /\ file = NoFile
  /\ tmp = NoFile
  /\ now = 1
  /\ reg = "none"
  /\ mu = NoLock
  /\ pc = [t \in Threads |-> IF t = Main THEN "factory" ELSE "idle"]
  /\ op = [p \in Procs |-> NoOp]
  /\ data = [t \in Threads |-> NoData]
  /\ instance = [p \in Procs |-> NoInstance]
  /\ err = [t \in Threads |-> NoErr]
  /\ result = [p \in Procs |-> << >>]
  /\ events = 0
  /\ prevFile = NoFile
  /\ live = [n \in Names |-> << >>]
  /\ exitFile = NoFile
  /\ regInv = {}
  /\ regDone = {}
  /\ deregInv = {}
  /\ concurrent = FALSE
  /\ before = [p \in Procs |-> NoFile]
  /\ watchers = [w \in BothWatchers |-> NoWatcher]
  /\ poller = [w \in BothWatchers |-> NoPoller]
  /\ client = [c \in Clients |-> NoCall]
  /\ panicked = ""
  /\ whist = [w \in BothWatchers |-> NoHistory]
  /\ chist = [c \in Clients |-> NoCallHistory]

\* the process is started again and will build its registry with the factory
RestartFactory ==
  /\ events < MaxEvents
  /\ events' = events + 1
  /\ reg' = "none"
  /\ mu' = NoLock
  /\ pc' = [t \in Threads |-> IF t = Main THEN "factory" ELSE "idle"]
  /\ op' = [p \in Procs |-> NoOp]
  /\ data' = [t \in Threads |-> NoData]
  /\ instance' = [p \in Procs |-> NoInstance]
  /\ err' = [t \in Threads |-> NoErr]
  /\ result' = [p \in Procs |-> << >>]
  /\ exitFile' = file
  /\ before' = [p \in Procs |-> NoFile]
  /\ UNCHANGED <<file, tmp, now, prevFile, live, regInv, regDone, deregInv,
                 concurrent, wvars>>

\* CreateRegistry(ctx, config) up to its return or its call of local.New
CreateRegistry(config) ==
  /\ pc[Main] = "factory"
  /\ IF CreateRegistryError(config) # NoErr
     THEN /\ err' = [err EXCEPT ![Main] = CreateRegistryError(config)]
          /\ pc' = [pc EXCEPT ![Main] = "returned"]
     ELSE /\ pc' = [pc EXCEPT ![Main] = "new"]
          /\ UNCHANGED err
  /\ UNCHANGED <<file, tmp, now, reg, mu, op, data, instance, result, events,
                 prevFile, live, exitFile, regInv, regDone, deregInv,
                 concurrent, before, wvars>>

\* local.New has failed: createLocalRegistry wraps its error and returns it
createLocalRegistryFails ==
  /\ pc[Main] = "failed"
  /\ err' = [err EXCEPT ![Main] = ErrCreate(err[Main])]
  /\ pc' = [pc EXCEPT ![Main] = "returned"]
  /\ UNCHANGED <<file, tmp, now, reg, mu, op, data, instance, result, events,
                 prevFile, live, exitFile, regInv, regDone, deregInv,
                 concurrent, before, wvars>>

\* the process calls ValidateConfig(config) on the configuration it has loaded
CallValidateConfig(config) ==
  /\ pc[Main] = "factory"
  /\ err' = [err EXCEPT ![Main] = ValidateConfig(config)]
  /\ pc' = [pc EXCEPT ![Main] = "validated"]
  /\ UNCHANGED <<file, tmp, now, reg, mu, op, data, instance, result, events,
                 prevFile, live, exitFile, regInv, regDone, deregInv,
                 concurrent, before, wvars>>

NextFactory ==
  \/ RestartFactory
  \/ \E config \in Configs : CreateRegistry(config)
  \/ \E config \in Configs : CallValidateConfig(config)
  \/ createLocalRegistryFails
  \/ NewMkdirAll
  \/ NewStat
  \/ NewReturn
  \/ \E p \in Procs : CallRegister(p)
  \/ \E p \in Procs : Lock(p)
  \/ \E p \in Procs : ReadRegistryFile(p)
  \/ \E p \in Procs : RegisterModify(p)
  \/ \E t \in Threads : WriteFileOpen(t)
  \/ \E t \in Threads : WriteFileWrite(t)
  \/ \E t \in Threads : Rename(t)
  \/ \E t \in Threads : WriteRegistryFileFails(t)
  \/ \E p \in Procs : Return(p)

SpecFactory == InitFactory /\ [][NextFactory]_vars

\* the configurations the factory is to refuse for a local registry
Refused(config) ==
  \/ config.isNil
  \/ /\ config.Type = "local"
     /\ \/ config.Local.isNil
        \/ config.Local.FilePath = ""

\* C32: CreateRegistry with a nil config, or for the type "local" with a nil
\* local section or an empty file path, returns an error at once: local.New is
\* not called, no Registry is built and neither the registry file nor its
\* temporary file is touched; and the config of GetDefaultConfig passes
\* ValidateConfig
C32_FactoryValidation ==
  /\ [][\A config \in Configs :
          (Refused(config) /\ CreateRegistry(config)) =>
            /\ pc'[Main] = "returned"
            /\ err'[Main] \in {ErrNilConfig, ErrNilLocal, ErrEmptyPath}
            /\ reg' = "none"
            /\ file' = file
            /\ tmp' = tmp]_vars
  /\ [][CallValidateConfig(GetDefaultConfig) => err'[Main] = NoErr]_vars
  /\ [](pc[Main] = "returned" /\ err[Main] \in {ErrNilConfig, ErrNilLocal, ErrEmptyPath}
          => reg = "none" /\ file = exitFile)

\* the factory has refused an empty file path where no file exists
C32_Witness ==
  /\ pc[Main] = "returned"
  /\ err[Main] = ErrEmptyPath
  /\ reg = "none"
  /\ ~file.exists

====
